---- MODULE Spec2Model ----
(***************************************************************************)
(* MicroPerl for the Z80: the bytecode compiler (compiler.rs, bytecode.rs) *)
(* and the Z80 bytecode interpreter emitted by z80.rs, as state machines.  *)
(*                                                                         *)
(* Strings are sequences of byte values.  An Option<T> of the source is a  *)
(* sequence of length 0 (None) or 1 (Some).  A HashMap is a function whose *)
(* DOMAIN is its key set.  Positions in `code` are the source's 0-based    *)
(* offsets; code[p + 1] is the byte at offset p.                           *)
(***************************************************************************)
EXTENDS Integers, Sequences, FiniteSets, TLC

\* ------------------------------------------------------------------------
\* bytecode.rs: opcodes
\* ------------------------------------------------------------------------
OpPush == 1
OpPushByte == 2
OpPop == 3
OpDup == 4
OpOver == 6
OpLoadLocal == 16
OpStoreLocal == 17
OpLoadGlobal == 18
OpStoreGlobal == 19
OpPushStr == 24
OpStrCat == 26
OpStrCmp == 28
OpNewArray == 32
OpArrLen == 33
OpArrGet == 34
OpArrSet == 35
OpNewHash == 40
OpHashGet == 41
OpHashSet == 42
OpAdd == 48
OpSub == 49
OpMul == 50
OpDiv == 51
OpMod == 52
OpNeg == 53
OpInc == 54
OpDec == 55
OpBitAnd == 56
OpBitOr == 57
OpBitXor == 58
OpBitNot == 59
OpShl == 60
OpShr == 61
OpCmpEq == 64
OpCmpNe == 65
OpCmpLt == 66
OpCmpGt == 67
OpCmpLe == 68
OpCmpGe == 69
OpCmp == 70
OpStrEq == 72
OpStrNe == 73
OpStrLt == 74
OpStrGt == 75
OpStrLe == 76
OpStrGe == 77
OpNot == 80
OpAnd == 81
OpOr == 82
OpJump == 96
OpJumpIf == 97
OpJumpIfNot == 98
OpJumpIfDef == 99
OpCall == 104
OpCallNative == 105
OpReturn == 106
OpReturnVal == 107
OpEnterFrame == 112
OpLeaveFrame == 113
OpPrint == 120
OpPrintLn == 124
OpMatch == 136
OpHalt == 240

U16 == 65536
U8 == 256

\* Op::size: the instruction's length in bytes, operands included.  Bytes
\* that are no opcode decode to Op::Invalid, of size 1.
\* Op::size with EnterFrame among the opcodes that have a 2-byte operand.
size_enter_frame_word(op) ==
    IF op \in {OpPushByte, OpLoadLocal, OpStoreLocal, OpNewArray, OpCallNative} THEN 2
    ELSE IF op \in {OpPush, OpLoadGlobal, OpStoreGlobal, OpPushStr, OpJump,
                    OpJumpIf, OpJumpIfNot, OpJumpIfDef, OpCall, OpEnterFrame} THEN 3
    ELSE 1

size(op) ==
    IF op \in {OpPushByte, OpLoadLocal, OpStoreLocal, OpNewArray, OpCallNative,
               OpEnterFrame} THEN 2
    ELSE IF op \in {OpPush, OpLoadGlobal, OpStoreGlobal, OpPushStr, OpJump,
                    OpJumpIf, OpJumpIfNot, OpJumpIfDef, OpCall} THEN 3
    ELSE 1

\* ------------------------------------------------------------------------
\* bytecode.rs: Module.  The compiler state `c` carries the module's fields
\* (code, strings, mglobals, msubs, entry) beside the compiler's own.
\* `pending` is a history field: the operand positions emitted as
\* placeholders ("emit_word(op, 0) // Placeholder") and not yet patched.
\* ------------------------------------------------------------------------
EmptyMap == [k \in {} |-> 0]

\* add_string without the lookup: every call appends.
add_string_append(strings, s) ==
    [strings |-> Append(strings, s), idx |-> Len(strings) % U16]

\* Module::add_string: the index of an equal string if the pool holds one,
\* else the string is appended and gets the next index (as u16).
add_string(strings, s) ==
    IF \E i \in 1..Len(strings) : strings[i] = s
    THEN [strings |-> strings,
          idx |-> ((CHOOSE i \in 1..Len(strings) :
                       /\ strings[i] = s
                       /\ \A j \in 1..(i - 1) : strings[j] # s) - 1) % U16]
    ELSE [strings |-> Append(strings, s), idx |-> Len(strings) % U16]

\* `starts` is a history field: the offsets at which emit, emit_byte and
\* emit_word pushed an opcode byte.
emit(c, op) == [c EXCEPT !.code = Append(@, op), !.starts = @ \cup {Len(c.code)}]

emit_byte(c, op, b) ==
    [c EXCEPT !.code = @ \o <<op, b % U8>>, !.starts = @ \cup {Len(c.code)}]

emit_word(c, op, w) ==
    [c EXCEPT !.code = @ \o <<op, w % U8, (w \div U8) % U8>>,
              !.starts = @ \cup {Len(c.code)}]

pos(c) == Len(c.code) % U16

\* patch_addr writing the address high byte first.
patch_addr_big_endian(c, p, addr) ==
    [c EXCEPT !.code = [@ EXCEPT ![p + 1] = (addr \div U8) % U8, ![p + 2] = addr % U8],
              !.pending = @ \ {p}]

\* Module::patch_addr: overwrite the two bytes at offset p, little-endian.
patch_addr(c, p, addr) ==
    [c EXCEPT !.code = [@ EXCEPT ![p + 1] = addr % U8, ![p + 2] = (addr \div U8) % U8],
              !.pending = @ \ {p}]

\* emit_word(op, 0) where the source marks the operand as a placeholder to
\* be patched: the same bytes, and the operand position is remembered.
emit_placeholder(c, op) ==
    [emit_word(c, op, 0) EXCEPT !.pending = @ \cup {Len(c.code) + 1}]

\* Compiler::new with Module::new.
NewCompiler ==
    [code |-> <<>>, strings |-> <<>>, mglobals |-> <<>>, msubs |-> <<>>, entry |-> 0,
     globals |-> EmptyMap, locals |-> <<EmptyMap>>, subs |-> EmptyMap,
     loop_stack |-> <<>>, forward_refs |-> <<>>, err |-> "", pending |-> {},
     starts |-> {}, clashes |-> {}]

Insert(m, k, v) == (k :> v) @@ m

MapLen(m) == Cardinality(DOMAIN m)

\* ------------------------------------------------------------------------
\* ast.rs: constructors of the tree the compiler consumes
\* ------------------------------------------------------------------------
Integer(n) == [t |-> "Integer", n |-> n]
String(s) == [t |-> "String", s |-> s]
ScalarVar(name) == [t |-> "ScalarVar", name |-> name]
ArrayIndex(arr, idx) == [t |-> "ArrayIndex", arr |-> arr, idx |-> idx]
HashIndex(hash, key) == [t |-> "HashIndex", hash |-> hash, key |-> key]
BinOp(left, op, right) == [t |-> "BinOp", left |-> left, op |-> op, right |-> right]
UnaryOp(op, expr) == [t |-> "UnaryOp", uop |-> op, expr |-> expr]
PostIncrement(expr) == [t |-> "PostIncrement", target |-> expr]
Assign(target, value) == [t |-> "Assign", target |-> target, value |-> value]
OpAssign(target, op, value) ==
    [t |-> "OpAssign", target |-> target, op |-> op, value |-> value]
Call(name, args) == [t |-> "Call", name |-> name, args |-> args]
List(items) == [t |-> "List", items |-> items]
Ternary(cond, then_expr, else_expr) ==
    [t |-> "Ternary", cond |-> cond, then_expr |-> then_expr, else_expr |-> else_expr]
Match(expr, pattern) == [t |-> "Match", expr |-> expr, pattern |-> pattern]
NotMatch(expr, pattern) == [t |-> "NotMatch", expr |-> expr, pattern |-> pattern]

ExprStmt(e) == [t |-> "Expr", e |-> e]
My(vars, init) == [t |-> "My", vars |-> vars, init |-> init]
Our(vars, init) == [t |-> "Our", vars |-> vars, init |-> init]
If(cond, then_block, elsif_blocks, else_block) ==
    [t |-> "If", cond |-> cond, then_block |-> then_block,
     elsif_blocks |-> elsif_blocks, else_block |-> else_block]
Unless(cond, then_block, else_block) ==
    [t |-> "Unless", cond |-> cond, then_block |-> then_block, else_block |-> else_block]
While(cond, body) == [t |-> "While", cond |-> cond, body |-> body]
Until(cond, body) == [t |-> "Until", cond |-> cond, body |-> body]
For(init, cond, step, body) ==
    [t |-> "For", init |-> init, fcond |-> cond, step |-> step, body |-> body]
Foreach(var, list, body) == [t |-> "Foreach", var |-> var, list |-> list, body |-> body]
Last == [t |-> "Last"]
Next_ == [t |-> "Next"]
Return(val) == [t |-> "Return", val |-> val]
Sub(name, params, body) == [t |-> "Sub", name |-> name, params |-> params, body |-> body]
PrintStmt(exprs) == [t |-> "Print", exprs |-> exprs]
Say(exprs) == [t |-> "Say", exprs |-> exprs]
Block(stmts) == [t |-> "Block", stmts |-> stmts]
Use(name) == [t |-> "Use", name |-> name]

\* Further ast.rs variants
ArrayVar(name) == [t |-> "ArrayVar", name |-> name]
HashVar(name) == [t |-> "HashVar", name |-> name]
PreIncrement(expr) == [t |-> "PreIncrement", target |-> expr]
PreDecrement(expr) == [t |-> "PreDecrement", target |-> expr]
PostDecrement(expr) == [t |-> "PostDecrement", target |-> expr]
Hash(pairs) == [t |-> "Hash", pairs |-> pairs]
Range(lo, hi) == [t |-> "Range", lo |-> lo, hi |-> hi]
MethodCall(obj, method, args) ==
    [t |-> "MethodCall", obj |-> obj, method |-> method, args |-> args]
Ref(expr) == [t |-> "Ref", expr |-> expr]
Deref(expr) == [t |-> "Deref", expr |-> expr]

\* ------------------------------------------------------------------------
\* compiler.rs
\* ------------------------------------------------------------------------
Ok(c) == c.err = ""

Fail(c, msg) == [c EXCEPT !.err = msg]

MaxOf(S) == CHOOSE x \in S : \A y \in S : y <= x

\* find_local searching the scopes outermost first.
find_local_outermost(c, name) ==
    LET hits == {i \in 1..Len(c.locals) : name \in DOMAIN c.locals[i]}
    IN  IF hits = {} THEN <<>>
        ELSE <<c.locals[CHOOSE i \in hits : \A j \in hits : i <= j][name]>>

\* Compiler::find_local: the slot of `name` in the innermost scope that
\* declares it, as an Option.
find_local(c, name) ==
    LET hits == {i \in 1..Len(c.locals) : name \in DOMAIN c.locals[i]}
    IN  IF hits = {} THEN <<>> ELSE <<c.locals[MaxOf(hits)][name]>>

\* The pairs of distinct names that resolve through the scope stack of c to
\* the same slot.
clashing(c) ==
    LET names == UNION {DOMAIN c.locals[i] : i \in 1..Len(c.locals)}
    IN  {<<n1, n2>> \in names \X names : n1 # n2 /\ find_local(c, n1) = find_local(c, n2)}

\* `clashes` is a history field: the pairs of clashing names seen so far.
note_clashes(c) == [c EXCEPT !.clashes = @ \cup clashing(c)]

\* self.locals.last_mut().unwrap().insert(name, idx)
insert_local(c, name, idx) ==
    note_clashes([c EXCEPT !.locals[Len(c.locals)] = Insert(@, name, idx)])

\* self.locals.last().unwrap().len() as u8
next_slot(c) == MapLen(c.locals[Len(c.locals)]) % U8

push_scope(c) == [c EXCEPT !.locals = Append(@, EmptyMap)]

pop_scope(c) == [c EXCEPT !.locals = SubSeq(@, 1, Len(@) - 1)]

push_loop(c, continue_pos) ==
    [c EXCEPT !.loop_stack = Append(@, [cont |-> continue_pos, breaks |-> <<>>])]

RECURSIVE patch_all(_, _, _)
\* for pos in positions { self.module.patch_addr(pos, addr) }
patch_all(c, positions, addr) ==
    IF positions = <<>> THEN c
    ELSE patch_all(patch_addr(c, Head(positions), addr), Tail(positions), addr)

\* let (_, break_jumps) = self.loop_stack.pop().unwrap(); patch each to end_pos
pop_loop_and_patch(c, end_pos) ==
    LET top == c.loop_stack[Len(c.loop_stack)]
        c1 == [c EXCEPT !.loop_stack = SubSeq(@, 1, Len(@) - 1)]
    IN  patch_all(c1, top.breaks, end_pos)

\* The opcode compile_expr emits for a binary operator; 0 for `**`.
binop_opcode(op) ==
    CASE op = "Add" -> OpAdd [] op = "Sub" -> OpSub [] op = "Mul" -> OpMul
      [] op = "Div" -> OpDiv [] op = "Mod" -> OpMod [] op = "Concat" -> OpStrCat
      [] op = "Eq" -> OpCmpEq [] op = "Ne" -> OpCmpNe [] op = "Lt" -> OpCmpLt
      [] op = "Gt" -> OpCmpGt [] op = "Le" -> OpCmpLe [] op = "Ge" -> OpCmpGe
      [] op = "Cmp" -> OpCmp [] op = "StrEq" -> OpStrEq [] op = "StrNe" -> OpStrNe
      [] op = "StrLt" -> OpStrLt [] op = "StrGt" -> OpStrGt [] op = "StrLe" -> OpStrLe
      [] op = "StrGe" -> OpStrGe [] op = "StrCmp" -> OpStrCmp [] op = "And" -> OpAnd
      [] op = "Or" -> OpOr [] op = "BitAnd" -> OpBitAnd [] op = "BitOr" -> OpBitOr
      [] op = "BitXor" -> OpBitXor [] op = "ShiftLeft" -> OpShl
      [] op = "ShiftRight" -> OpShr [] OTHER -> 0

\* The opcode of a compound assignment; 0 when it is rejected.
opassign_opcode(op) ==
    CASE op = "Add" -> OpAdd [] op = "Sub" -> OpSub [] op = "Mul" -> OpMul
      [] op = "Div" -> OpDiv [] op = "Concat" -> OpStrCat [] OTHER -> 0

RECURSIVE compile_stmt(_, _)
RECURSIVE compile_stmts(_, _)
RECURSIVE compile_expr(_, _)
RECURSIVE compile_exprs(_, _)
RECURSIVE compile_assign_expr(_, _)
RECURSIVE compile_elsifs(_, _)
RECURSIVE compile_prints(_, _)
RECURSIVE compile_list_items(_, _, _)
RECURSIVE compile_hash_pairs(_, _)
RECURSIVE my_alloc(_, _)
RECURSIVE my_distribute(_, _, _)
RECURSIVE our_alloc(_, _)

\* `x?; self.module.emit(op)`: the emit happens only when x succeeded.
emit_ok(c, op) == IF Ok(c) THEN emit(c, op) ELSE c

\* `let end = self.module.pos(); self.module.patch_addr(p, end)`
jump_here(c, p) == patch_addr(c, p, pos(c))

\* `let idx = self.module.add_string(s); self.module.emit_word(Op::PushStr, idx)`
push_str(c, s) ==
    LET r == add_string(c.strings, s)
    IN  emit_word([c EXCEPT !.strings = r.strings], OpPushStr, r.idx)

\* Reading a variable: ScalarVar, ArrayVar and HashVar differ in the message.
compile_var(c, name, msg) ==
    LET l == find_local(c, name)
    IN  IF l # <<>> THEN emit_byte(c, OpLoadLocal, l[1])
        ELSE IF name \in DOMAIN c.globals THEN emit_word(c, OpLoadGlobal, c.globals[name])
        ELSE Fail(c, msg)

\* compile_assign_expr whose auto-vivification emits the StoreLocal and
\* leaves the scope as it was.
compile_assign_expr_no_insert(c, target) ==
    CASE target.t = "ScalarVar" ->
           LET l == find_local(c, target.name)
           IN  IF l # <<>> THEN emit_byte(c, OpStoreLocal, l[1])
               ELSE IF target.name \in DOMAIN c.globals
                    THEN emit_word(c, OpStoreGlobal, c.globals[target.name])
               ELSE emit_byte(c, OpStoreLocal, next_slot(c))
      [] OTHER -> Fail(c, "Invalid assignment target")

compile_assign_expr(c, target) ==
    CASE target.t = "ScalarVar" ->
           LET l == find_local(c, target.name)
           IN  IF l # <<>> THEN emit_byte(c, OpStoreLocal, l[1])
               ELSE IF target.name \in DOMAIN c.globals
                    THEN emit_word(c, OpStoreGlobal, c.globals[target.name])
               ELSE \* Auto-vivify as local
                    emit_byte(insert_local(c, target.name, next_slot(c)),
                              OpStoreLocal, next_slot(c))
      [] target.t = "ArrayIndex" ->
           emit_ok(compile_exprs(c, <<target.arr, target.idx>>), OpArrSet)
      [] target.t = "HashIndex" ->
           emit_ok(compile_exprs(c, <<target.hash, target.key>>), OpHashSet)
      [] OTHER -> Fail(c, "Invalid assignment target")

\* for arg in args { self.compile_expr(arg)?; }
compile_exprs(c, es) ==
    IF es = <<>> \/ ~Ok(c) THEN c
    ELSE compile_exprs(compile_expr(c, Head(es)), Tail(es))

\* Expr::List: for each item Dup, Push i, the item, ArrSet.
compile_list_items(c, items, i) ==
    IF items = <<>> \/ ~Ok(c) THEN c
    ELSE compile_list_items(
             emit_ok(compile_expr(emit_word(emit(c, OpDup), OpPush, i % U16), Head(items)),
                     OpArrSet),
             Tail(items), i + 1)

\* Expr::Hash: for each pair Dup, key, value, HashSet.
compile_hash_pairs(c, pairs) ==
    IF pairs = <<>> \/ ~Ok(c) THEN c
    ELSE compile_hash_pairs(
             emit_ok(compile_exprs(emit(c, OpDup), <<Head(pairs)[1], Head(pairs)[2]>>),
                     OpHashSet),
             Tail(pairs))

\* The call's operand: the recorded address when `subs` knows the name, else
\* 0 with a forward reference to the operand position.
compile_call(c, name) ==
    IF name \in DOMAIN c.subs
    THEN emit_word(c, OpCall, c.subs[name][1])
    ELSE emit_word([c EXCEPT !.forward_refs = Append(@, <<name, pos(c) + 1>>)], OpCall, 0)

\* Expr::Match: subject, PushStr of the interned pattern, Match.
compile_match(c, e) ==
    LET k(c1) == IF Ok(c1) THEN emit(push_str(c1, e.pattern), OpMatch) ELSE c1
    IN  k(compile_expr(c, e.expr))

\* Expr::NotMatch compiled as Expr::Match is.
compile_not_match_without_not(c, e) ==
    LET k(c1) == IF Ok(c1) THEN emit(push_str(c1, e.pattern), OpMatch) ELSE c1
    IN  k(compile_expr(c, e.expr))

\* Expr::NotMatch: the same, then Not.
compile_not_match(c, e) ==
    LET k(c1) == IF Ok(c1) THEN emit(emit(push_str(c1, e.pattern), OpMatch), OpNot) ELSE c1
    IN  k(compile_expr(c, e.expr))

\* PreIncrement / PreDecrement: Dup, load, Inc/Dec, Dup, store.
compile_pre(c, target, op) ==
    LET k(c1) == IF Ok(c1) THEN compile_assign_expr(emit(emit(c1, op), OpDup), target)
                 ELSE c1
    IN  k(compile_expr(emit(c, OpDup), target))

\* PostIncrement / PostDecrement: load, Dup, Inc/Dec, store.
compile_post(c, target, op) ==
    LET k(c1) == IF Ok(c1) THEN compile_assign_expr(emit(emit(c1, OpDup), op), target)
                 ELSE c1
    IN  k(compile_expr(c, target))

compile_expr(c, e) ==
    CASE e.t = "Integer" -> emit_word(c, OpPush, e.n % U16)
      [] e.t = "String" -> push_str(c, e.s)
      [] e.t = "ScalarVar" -> compile_var(c, e.name, "Undefined variable")
      [] e.t = "ArrayVar" -> compile_var(c, e.name, "Undefined array")
      [] e.t = "HashVar" -> compile_var(c, e.name, "Undefined hash")
      [] e.t = "ArrayIndex" -> emit_ok(compile_exprs(c, <<e.arr, e.idx>>), OpArrGet)
      [] e.t = "HashIndex" -> emit_ok(compile_exprs(c, <<e.hash, e.key>>), OpHashGet)
      [] e.t = "BinOp" ->
           LET k(c2) == IF ~Ok(c2) THEN c2
                        ELSE IF binop_opcode(e.op) = 0
                             THEN Fail(c2, "Power operator not yet implemented")
                        ELSE emit(c2, binop_opcode(e.op))
           IN  k(compile_exprs(c, <<e.left, e.right>>))
      [] e.t = "UnaryOp" ->
           LET k(c1) == IF ~Ok(c1) THEN c1
                        ELSE CASE e.uop = "Neg" -> emit(c1, OpNeg)
                               [] e.uop = "Not" -> emit(c1, OpNot)
                               [] e.uop = "BitNot" -> emit(c1, OpBitNot)
                               [] OTHER -> Fail(c1, "References not yet implemented")
           IN  k(compile_expr(c, e.expr))
      [] e.t = "PreIncrement" -> compile_pre(c, e.target, OpInc)
      [] e.t = "PreDecrement" -> compile_pre(c, e.target, OpDec)
      [] e.t = "PostIncrement" -> compile_post(c, e.target, OpInc)
      [] e.t = "PostDecrement" -> compile_post(c, e.target, OpDec)
      [] e.t = "Assign" ->
           LET k(c1) == IF Ok(c1) THEN compile_assign_expr(emit(c1, OpDup), e.target) ELSE c1
           IN  k(compile_expr(c, e.value))
      [] e.t = "OpAssign" ->
           LET k(c2) == IF ~Ok(c2) THEN c2
                        ELSE IF opassign_opcode(e.op) = 0
                             THEN Fail(c2, "Unsupported op-assign")
                        ELSE compile_assign_expr(
                                 emit(emit(c2, opassign_opcode(e.op)), OpDup), e.target)
           IN  k(compile_exprs(c, <<e.target, e.value>>))
      [] e.t = "Call" ->
           LET k(c1) == IF Ok(c1) THEN compile_call(c1, e.name) ELSE c1
           IN  k(compile_exprs(c, e.args))
      [] e.t = "MethodCall" ->
           LET k(c1) == IF Ok(c1) THEN Fail(c1, "Method calls not yet implemented") ELSE c1
           IN  k(compile_exprs(c, <<e.obj>> \o e.args))
      [] e.t = "List" ->
           compile_list_items(emit_byte(c, OpNewArray, Len(e.items)), e.items, 0)
      [] e.t = "Hash" -> compile_hash_pairs(emit(c, OpNewHash), e.pairs)
      [] e.t = "Ternary" ->
           LET k3(c4, end_jump) == IF Ok(c4) THEN jump_here(c4, end_jump) ELSE c4
               k2(c2, else_jump) ==
                   IF Ok(c2)
                   THEN k3(compile_expr(jump_here(emit_placeholder(c2, OpJump), else_jump),
                                        e.else_expr),
                           pos(c2) + 1)
                   ELSE c2
               k1(c1) ==
                   IF Ok(c1)
                   THEN k2(compile_expr(emit_placeholder(c1, OpJumpIfNot), e.then_expr),
                           pos(c1) + 1)
                   ELSE c1
           IN  k1(compile_expr(c, e.cond))
      [] e.t = "Range" -> Fail(c, "Range expressions not yet implemented")
      [] e.t = "Match" -> compile_match(c, e)
      [] e.t = "NotMatch" -> compile_not_match(c, e)
      [] e.t = "Ref" -> Fail(c, "References not yet implemented")
      [] e.t = "Deref" -> Fail(c, "Dereferences not yet implemented")

\* Stmt::My: for var in vars { idx = locals.last().len() as u8; insert(var, idx) }
my_alloc(c, vars) ==
    IF vars = <<>> THEN c
    ELSE my_alloc(insert_local(c, Head(vars), next_slot(c)), Tail(vars))

\* Stmt::My with several names: Dup (but for the last), Push i, ArrGet, StoreLocal.
my_distribute(c, vars, i) ==
    IF i >= Len(vars) THEN c
    ELSE my_distribute(
             emit_byte(emit(emit_word(IF i < Len(vars) - 1 THEN emit(c, OpDup) ELSE c,
                                      OpPush, i % U16),
                            OpArrGet),
                       OpStoreLocal, c.locals[Len(c.locals)][vars[i + 1]]),
             vars, i + 1)

\* Stmt::Our: for var in vars { idx = globals.len() as u16; insert; push name }
our_alloc(c, vars) ==
    IF vars = <<>> THEN c
    ELSE our_alloc([c EXCEPT !.globals = Insert(@, Head(vars), MapLen(c.globals) % U16),
                             !.mglobals = Append(@, Head(vars))],
                   Tail(vars))

compile_stmts(c, stmts) ==
    IF stmts = <<>> \/ ~Ok(c) THEN c
    ELSE compile_stmts(compile_stmt(c, Head(stmts)), Tail(stmts))

\* for expr in exprs { self.compile_expr(expr)?; self.module.emit(Op::Print); }
compile_prints(c, exprs) ==
    IF exprs = <<>> \/ ~Ok(c) THEN c
    ELSE compile_prints(emit_ok(compile_expr(c, Head(exprs)), OpPrint), Tail(exprs))

\* The elsif loop of Stmt::If.  `r` is [c, end_jumps]: the compiler state and
\* the end-jump operand positions collected so far.
compile_elsifs(r, elsifs) ==
    IF elsifs = <<>> \/ ~Ok(r.c) THEN r
    ELSE LET k2(c2, elsif_jump) ==
                 IF Ok(c2)
                 THEN compile_elsifs(
                          [c |-> jump_here(emit_placeholder(c2, OpJump), elsif_jump),
                           end_jumps |-> Append(r.end_jumps, pos(c2) + 1)],
                          Tail(elsifs))
                 ELSE [c |-> c2, end_jumps |-> r.end_jumps]
             k1(c1) ==
                 IF Ok(c1)
                 THEN k2(compile_stmts(emit_placeholder(c1, OpJumpIfNot), Head(elsifs)[2]),
                         pos(c1) + 1)
                 ELSE [c |-> c1, end_jumps |-> r.end_jumps]
         IN  k1(compile_expr(r.c, Head(elsifs)[1]))

compile_if(c, s) ==
    LET more == s.elsif_blocks # <<>> \/ s.else_block # <<>>
        k4(c5, end_jumps) == IF Ok(c5) THEN patch_all(c5, end_jumps, pos(c5)) ELSE c5
        k3(r) ==
            k4(IF Ok(r.c) /\ s.else_block # <<>>
               THEN compile_stmts(r.c, s.else_block[1])
               ELSE r.c,
               r.end_jumps)
        k2(c2, jump_pos) ==
            IF Ok(c2)
            THEN k3(compile_elsifs(
                        [c |-> jump_here(IF more THEN emit_placeholder(c2, OpJump) ELSE c2,
                                         jump_pos),
                         end_jumps |-> IF more THEN <<pos(c2) + 1>> ELSE <<>>],
                        s.elsif_blocks))
            ELSE c2
        k1(c1) ==
            IF Ok(c1)
            THEN k2(compile_stmts(emit_placeholder(c1, OpJumpIfNot), s.then_block),
                    pos(c1) + 1)
            ELSE c1
    IN  k1(compile_expr(c, s.cond))

compile_unless(c, s) ==
    LET k3(c4, end_jump) == IF Ok(c4) THEN jump_here(c4, end_jump) ELSE c4
        k2(c2, jump_pos) ==
            IF ~Ok(c2) THEN c2
            ELSE IF s.else_block # <<>>
            THEN k3(compile_stmts(jump_here(emit_placeholder(c2, OpJump), jump_pos),
                                  s.else_block[1]),
                    pos(c2) + 1)
            ELSE jump_here(c2, jump_pos)
        k1(c1) ==
            IF Ok(c1)
            THEN k2(compile_stmts(emit_placeholder(c1, OpJumpIf), s.then_block), pos(c1) + 1)
            ELSE c1
    IN  k1(compile_expr(c, s.cond))

\* Stmt::While (exit_op = JumpIfNot) and Stmt::Until (exit_op = JumpIf).
compile_while(c, s, exit_op) ==
    LET loop_start == pos(c)
        k3(c3, exit_jump) == pop_loop_and_patch(jump_here(c3, exit_jump), pos(c3))
        k2(c2, exit_jump) ==
            IF Ok(c2) THEN k3(emit_word(c2, OpJump, loop_start), exit_jump) ELSE c2
        k1(c1) ==
            IF Ok(c1)
            THEN k2(compile_stmts(emit_placeholder(c1, exit_op), s.body), pos(c1) + 1)
            ELSE c1
    IN  k1(compile_expr(push_loop(c, loop_start), s.cond))

compile_for(c, s) ==
    LET k5(c8, exit_jump) ==
            pop_scope(pop_loop_and_patch(patch_all(c8, exit_jump, pos(c8)), pos(c8)))
        k4(c6, loop_start, exit_jump) ==
            IF Ok(c6)
            THEN k5(emit_word(IF s.step # <<>> THEN emit(c6, OpPop) ELSE c6,
                              OpJump, loop_start),
                    exit_jump)
            ELSE c6
        k3(c5, loop_start, exit_jump) ==
            k4(IF Ok(c5) /\ s.step # <<>> THEN compile_expr(c5, s.step[1]) ELSE c5,
               loop_start, exit_jump)
        k2(c3, loop_start) ==
            IF ~Ok(c3) THEN c3
            ELSE IF s.fcond # <<>>
            THEN k3(compile_stmts(emit_placeholder(c3, OpJumpIfNot), s.body),
                    loop_start, <<pos(c3) + 1>>)
            ELSE k3(compile_stmts(c3, s.body), loop_start, <<>>)
        k1(c1) ==
            IF ~Ok(c1) THEN c1
            ELSE k2(IF s.fcond # <<>>
                    THEN compile_expr(push_loop(c1, pos(c1)), s.fcond[1])
                    ELSE push_loop(c1, pos(c1)),
                    pos(c1))
    IN  k1(IF s.init # <<>> THEN compile_stmt(push_scope(c), s.init[1]) ELSE push_scope(c))

compile_foreach(c, s) ==
    LET var_idx == 0
        k4(c6, exit_jump) ==
            pop_scope(pop_loop_and_patch(emit(emit(jump_here(c6, exit_jump), OpPop), OpPop),
                                         pos(c6)))
        k3(c5, loop_start, exit_jump) ==
            IF Ok(c5) THEN k4(emit_word(emit(c5, OpInc), OpJump, loop_start), exit_jump)
            ELSE c5
        k2(c3, loop_start) ==
            k3(compile_stmts(
                   emit_byte(emit(emit(emit(emit_placeholder(c3, OpJumpIfNot), OpOver),
                                       OpOver), OpArrGet),
                             OpStoreLocal, var_idx),
                   s.body),
               loop_start, pos(c3) + 1)
        k1b(c2) ==
            k2(emit(emit(emit(emit(push_loop(c2, pos(c2)), OpOver), OpArrLen), OpOver),
                    OpCmpLt),
               pos(c2))
        k1(c1) == IF Ok(c1) THEN k1b(emit_word(c1, OpPush, 0)) ELSE c1
    IN  k1(compile_expr(insert_local(push_scope(c), s.var, var_idx), s.list))

\* Stmt::Last without the test of the loop stack.
compile_last_unchecked(c) ==
    IF c.loop_stack # <<>>
    THEN emit_placeholder(
             [c EXCEPT !.loop_stack[Len(c.loop_stack)].breaks = Append(@, pos(c) + 1)],
             OpJump)
    ELSE emit_placeholder(c, OpJump)

\* Stmt::Last recording the jump with the outermost loop (first() for last_mut()).
compile_last_outermost(c) ==
    IF c.loop_stack # <<>>
    THEN emit_placeholder([c EXCEPT !.loop_stack[1].breaks = Append(@, pos(c) + 1)], OpJump)
    ELSE Fail(c, "'last' outside of loop")

compile_last(c) ==
    IF c.loop_stack # <<>>
    THEN emit_placeholder(
             [c EXCEPT !.loop_stack[Len(c.loop_stack)].breaks = Append(@, pos(c) + 1)],
             OpJump)
    ELSE Fail(c, "'last' outside of loop")

\* Stmt::Next compiled as Stmt::Last is: a jump the loop patches to its end.
compile_next_as_last(c) ==
    IF c.loop_stack # <<>>
    THEN emit_placeholder(
             [c EXCEPT !.loop_stack[Len(c.loop_stack)].breaks = Append(@, pos(c) + 1)],
             OpJump)
    ELSE Fail(c, "'next' outside of loop")

compile_next(c) ==
    IF c.loop_stack # <<>>
    THEN emit_word(c, OpJump, c.loop_stack[Len(c.loop_stack)].cont)
    ELSE Fail(c, "'next' outside of loop")

compile_return(c, s) ==
    IF s.val # <<>> THEN emit_ok(compile_expr(c, s.val[1]), OpReturnVal)
    ELSE emit(c, OpReturn)

RECURSIVE sub_params(_, _, _)
\* for (i, param) in params.iter().enumerate() { insert(param, i as u8) }
sub_params(c, params, i) ==
    IF i >= Len(params) THEN c
    ELSE sub_params(insert_local(c, params[i + 1], i % U8), params, i + 1)

compile_sub(c, s) ==
    LET k2(c4, skip_jump) ==
            IF Ok(c4)
            THEN jump_here(pop_scope(emit(emit(c4, OpLeaveFrame), OpReturn)), skip_jump)
            ELSE c4
        k1(c1, skip_jump) ==
            k2(compile_stmts(
                   sub_params(
                       emit_byte(push_scope(
                                     [c1 EXCEPT !.subs = Insert(@, s.name,
                                                                <<pos(c1),
                                                                  Len(s.params) % U8>>)]),
                                 OpEnterFrame, Len(s.params)),
                       s.params, 0),
                   s.body),
               skip_jump)
    IN  k1(emit_placeholder(c, OpJump), pos(c) + 1)

compile_my(c, s) ==
    LET k(c2) ==
            IF ~Ok(c2) THEN c2
            ELSE IF Len(s.vars) = 1
                 THEN emit_byte(c2, OpStoreLocal, c2.locals[Len(c2.locals)][s.vars[1]])
            ELSE my_distribute(c2, s.vars, 0)
    IN  IF s.init = <<>> THEN my_alloc(c, s.vars)
        ELSE k(compile_expr(my_alloc(c, s.vars), s.init[1]))

compile_our(c, s) ==
    LET k(c2) == IF Ok(c2) THEN emit_word(c2, OpStoreGlobal, c2.globals[s.vars[1]]) ELSE c2
    IN  IF s.init = <<>> \/ Len(s.vars) # 1 THEN our_alloc(c, s.vars)
        ELSE k(compile_expr(our_alloc(c, s.vars), s.init[1]))

compile_stmt(c, s) ==
    CASE s.t = "Expr" -> emit_ok(compile_expr(c, s.e), OpPop)
      [] s.t = "My" -> compile_my(c, s)
      [] s.t = "Our" -> compile_our(c, s)
      [] s.t = "If" -> compile_if(c, s)
      [] s.t = "Unless" -> compile_unless(c, s)
      [] s.t = "While" -> compile_while(c, s, OpJumpIfNot)
      [] s.t = "Until" -> compile_while(c, s, OpJumpIf)
      [] s.t = "For" -> compile_for(c, s)
      [] s.t = "Foreach" -> compile_foreach(c, s)
      [] s.t = "Last" -> compile_last(c)
      [] s.t = "Next" -> compile_next(c)
      [] s.t = "Return" -> compile_return(c, s)
      [] s.t = "Sub" -> compile_sub(c, s)
      [] s.t = "Print" -> compile_prints(c, s.exprs)
      [] s.t = "Say" -> emit_ok(compile_prints(c, s.exprs), OpPrintLn)
      [] s.t = "Block" ->
           LET k(c1) == IF Ok(c1) THEN pop_scope(c1) ELSE c1
           IN  k(compile_stmts(push_scope(c), s.stmts))
      [] s.t = "Use" -> c
      [] s.t = "Package" -> c

\* ------------------------------------------------------------------------
\* Compiler::compile, in its four stages
\* ------------------------------------------------------------------------
RECURSIVE pass1(_, _)
\* First pass: every top-level Sub is recorded as (0, params.len()).
pass1(c, stmts) ==
    IF stmts = <<>> THEN c
    ELSE pass1(IF Head(stmts).t = "Sub"
               THEN [c EXCEPT !.subs = Insert(@, Head(stmts).name,
                                              <<0, Len(Head(stmts).params) % U8>>)]
               ELSE c,
               Tail(stmts))

RECURSIVE patch_forward_refs(_, _)
\* Patch forward references, in the order they were recorded.
patch_forward_refs(c, refs) ==
    IF refs = <<>> THEN c
    ELSE IF Head(refs)[1] \in DOMAIN c.subs
         THEN patch_forward_refs(patch_addr(c, Head(refs)[2], c.subs[Head(refs)[1]][1]),
                                 Tail(refs))
         ELSE Fail(c, "Undefined subroutine")

\* The orders in which `for (name, ..) in &self.subs` may visit a HashMap's
\* entries: the iteration order of a HashMap is unspecified and, with the
\* default RandomState hasher, differs from one map to the next.
IterationOrders(m) ==
    {o \in [1..MapLen(m) -> DOMAIN m] : \A i, j \in 1..MapLen(m) : o[i] = o[j] => i = j}

\* Copy sub info to module, visiting the map in `order`.
copy_subs(c, order) ==
    [c EXCEPT !.msubs = @ \o [i \in 1..Len(order) |->
                                <<order[i], c.subs[order[i]][1], c.subs[order[i]][2]>>]]

\* The Module that compile returns.
ModuleOf(c) ==
    [strings |-> c.strings, globals |-> c.mglobals, subs |-> c.msubs,
     code |-> c.code, entry |-> c.entry]

\* Compiler::compile as one function of the program and the visiting order.
compile(program, order) ==
    LET k2(c2) == IF Ok(c2) THEN copy_subs(c2, order) ELSE c2
        k1(c1) == IF Ok(c1)
                  THEN k2(patch_forward_refs(emit(c1, OpHalt), c1.forward_refs))
                  ELSE c1
    IN  k1(compile_stmts(pass1(NewCompiler, program), program))

\* ------------------------------------------------------------------------
\* State
\* ------------------------------------------------------------------------
VARIABLES
    program,    \* the parsed program handed to Compiler::compile
    phase,      \* where compile stands: pass1, pass2, patch, copy, done, failed
    comp,       \* the Compiler (its Module included)
    stmt_i,     \* index of the next top-level statement of the main loop
    module,     \* the Module that compile returned, <<>> before it returns
    run,        \* 1 for the first compilation of the program, 2 for the second
    first,      \* the Module the first compilation returned, <<>> before
    image,      \* the bytecode image placed at BYTECODE_ORG
    fill,       \* the byte an unwritten RAM cell reads as
    ram,        \* the RAM cells written so far
    vm_sp,      \* word at vm_sp_addr
    vm_fp,      \* word at vm_fp_addr
    vm_pc,      \* word at vm_pc_addr
    z80_sp,     \* the Z80's own stack pointer
    out,        \* bytes written to PORT_CONSOLE
    status,     \* off, reset, running, matching, halted, stray
    mt,         \* registers of the MATCH handler while it loops
    calls,      \* history: one record per CALL still awaiting its RETURN
    front,      \* the source text, the Lexer and the tokens of tokenize
    nom         \* a machine with the documented semantics of the opcodes

compVars == <<program, phase, comp, stmt_i, module, run, first>>
vmVars == <<image, fill, ram, vm_sp, vm_fp, vm_pc, z80_sp, out, status, mt, calls>>
vars == <<program, phase, comp, stmt_i, module, run, first,
          image, fill, ram, vm_sp, vm_fp, vm_pc, z80_sp, out, status, mt, calls, front, nom>>

\* No source text: the program is handed to the compiler as a tree.
FrontOff ==
    front = [stage |-> "off", input |-> <<>>, pos |-> 0, last_token |-> <<>>,
             tokens |-> <<>>, err |-> ""]

\* The interpreter before any ROM has been built.
VmOff ==
    /\ image = <<>> /\ fill = 0 /\ ram = EmptyMap
    /\ vm_sp = 0 /\ vm_fp = 0 /\ vm_pc = 0 /\ z80_sp = 0
    /\ out = <<>> /\ status = "off" /\ mt = <<>> /\ calls = <<>>

\* No code is being read by the documented semantics.
NomOff ==
    nom = [stage |-> "off", pc |-> 0, stack |-> <<>>, locals |-> <<>>, globals |-> <<>>,
           heap |-> <<>>, out |-> <<>>, trace |-> <<>>]

\* ------------------------------------------------------------------------
\* Programs the compiler is run on
\* ------------------------------------------------------------------------
MaxStmts == 3

chH == 104
chUpH == 72
chDot == 46

SubF == Sub("f", <<>>, <<PrintStmt(<<String(<<chH>>)>>)>>)
SubG == Sub("g", <<"a">>, <<ExprStmt(Call("f", <<ScalarVar("a")>>)), Return(<<>>)>>)
CallF == ExprStmt(Call("f", <<>>))
CallG == PrintStmt(<<Call("g", <<Integer(1)>>)>>)
NestedSubH == Block(<<Sub("h", <<>>, <<ExprStmt(Call("h", <<>>))>>)>>)
CallH == ExprStmt(Call("h", <<>>))
IfElsifElse ==
    If(Match(String(<<chH, chUpH>>), <<chH>>),
       <<PrintStmt(<<String(<<chH>>)>>)>>,
       << <<NotMatch(String(<<chH>>), <<chDot>>), <<Say(<<String(<<chH, chUpH>>)>>)>>>> >>,
       << <<PrintStmt(<<Integer(0)>>)>> >>)
WhileLastNext ==
    While(BinOp(Integer(1), "And", Integer(2)),
          <<Unless(Integer(0), <<Last>>, <<>>), Next_>>)
UntilTernary ==
    Until(Ternary(Integer(1), Integer(0), Integer(1)), <<Last>>)

ForNext ==
    For(<<My(<<"i">>, <<Integer(0)>>)>>, <<BinOp(ScalarVar("i"), "Lt", Integer(2))>>,
        <<PostIncrement(ScalarVar("i"))>>, <<Next_>>)
ForeachLast == Foreach("x", List(<<Integer(1), String(<<chH>>)>>), <<Last>>)

TopStmts ==
    {SubF, SubG, CallF, CallG, NestedSubH, CallH, IfElsifElse, WhileLastNext,
     UntilTernary, ForNext, ForeachLast, Last}

Programs == UNION {[1..n -> TopStmts] : n \in 0..MaxStmts}

\* ------------------------------------------------------------------------
\* The compiler as a state machine
\* ------------------------------------------------------------------------
Init ==
    /\ program \in Programs
    /\ phase = "pass1" /\ comp = NewCompiler /\ stmt_i = 1
    /\ module = <<>> /\ run = 1 /\ first = <<>>
    /\ VmOff /\ FrontOff /\ NomOff

\* compile, first pass
Pass1 ==
    /\ phase = "pass1"
    /\ comp' = pass1(comp, program)
    /\ phase' = "pass2"
    /\ UNCHANGED <<program, stmt_i, module, run, first>>
    /\ UNCHANGED <<vmVars, front, nom>>

\* compile, one turn of `for stmt in &program.statements`
CompileTop ==
    /\ phase = "pass2" /\ stmt_i <= Len(program)
    /\ comp' = compile_stmt(comp, program[stmt_i])
    /\ stmt_i' = stmt_i + 1
    /\ phase' = IF Ok(comp') THEN "pass2" ELSE "failed"
    /\ UNCHANGED <<program, module, run, first>>
    /\ UNCHANGED <<vmVars, front, nom>>

\* compile, `self.module.emit(Op::Halt)`
EmitHalt ==
    /\ phase = "pass2" /\ stmt_i > Len(program)
    /\ comp' = emit(comp, OpHalt)
    /\ phase' = "patch"
    /\ UNCHANGED <<program, stmt_i, module, run, first>>
    /\ UNCHANGED <<vmVars, front, nom>>

\* compile, the loop over forward_refs
PatchForwardRefs ==
    /\ phase = "patch"
    /\ comp' = patch_forward_refs(comp, comp.forward_refs)
    /\ phase' = IF Ok(comp') THEN "copy" ELSE "failed"
    /\ UNCHANGED <<program, stmt_i, module, run, first>>
    /\ UNCHANGED <<vmVars, front, nom>>

\* compile, the loop over subs and `Ok(self.module)`
CopySubs ==
    /\ phase = "copy"
    /\ \E order \in IterationOrders(comp.subs) :
          /\ comp' = copy_subs(comp, order)
          /\ module' = <<ModuleOf(comp')>>
    /\ phase' = "done"
    /\ UNCHANGED <<program, stmt_i, run, first>>
    /\ UNCHANGED <<vmVars, front, nom>>

\* The same program is handed to a new Compiler.
Recompile ==
    /\ phase = "done" /\ run = 1
    /\ first' = module /\ run' = 2
    /\ comp' = NewCompiler /\ phase' = "pass1" /\ stmt_i' = 1 /\ module' = <<>>
    /\ UNCHANGED program
    /\ UNCHANGED <<vmVars, front, nom>>

Next ==
    \/ Pass1
    \/ CompileTop
    \/ EmitHalt
    \/ PatchForwardRefs
    \/ CopySubs
    \/ Recompile

Spec == Init /\ [][Next]_vars

\* ------------------------------------------------------------------------
\* Reading the final code, as main.rs's disassemble walks it
\* ------------------------------------------------------------------------
RECURSIVE disassemble_from(_, _)
disassemble_from(code, pc) ==
    IF pc >= Len(code) THEN {}
    ELSE {pc} \cup disassemble_from(code, pc + size(code[pc + 1]))

\* The offsets at which disassemble finds an instruction.
disassemble(code) == disassemble_from(code, 0)

\* code[pc + 1] as u16 | (code[pc + 2] as u16) << 8
operand16(code, pc) == code[pc + 2] + code[pc + 3] * U8

\* The offsets of the instructions with opcode op.
instrs(code, op) == {pc \in disassemble(code) : code[pc + 1] = op}

Elems(f) == {f[i] : i \in DOMAIN f}

\* The names a statement list defines with `sub`, nested blocks included.
RECURSIVE defined_subs(_)
defined_subs(stmts) ==
    IF stmts = <<>> THEN <<>>
    ELSE (CASE Head(stmts).t = "Sub" -> <<Head(stmts).name>> \o defined_subs(Head(stmts).body)
            [] Head(stmts).t = "Block" -> defined_subs(Head(stmts).stmts)
            [] OTHER -> <<>>)
         \o defined_subs(Tail(stmts))

\* Offset of the code of top-level statement i.
stmt_offset(prog, i) ==
    pos(compile_stmts(pass1(NewCompiler, prog), SubSeq(prog, 1, i - 1)))

\* ------------------------------------------------------------------------
\* Claims about the compiler
\* ------------------------------------------------------------------------
Count(seq, x) == Cardinality({i \in DOMAIN seq : seq[i] = x})

\* Statement i is `name();` and `sub name` is defined once, by a later
\* top-level statement (directly or inside a block).
IsForwardCall(prog, i, name) ==
    /\ prog[i] = ExprStmt(Call(name, <<>>))
    /\ Count(defined_subs(prog), name) = 1
    /\ name \notin Elems(defined_subs(SubSeq(prog, 1, i)))

\* Every called name is defined and no statement is rejected on its own.
Compilable(prog) ==
    /\ Last \notin Elems(prog)
    /\ \A i \in DOMAIN prog :
          /\ prog[i] = CallF => "f" \in Elems(defined_subs(prog))
          /\ prog[i] = CallG => "g" \in Elems(defined_subs(prog))
          /\ prog[i] = CallH => "h" \in Elems(defined_subs(prog))
          /\ prog[i] = SubG => "f" \in Elems(defined_subs(prog))

\* C1: a program with a forward call compiles, and in the final module the
\* operand of that Call is the entry offset of the subroutine, where its
\* EnterFrame instruction is.
C1_ForwardCallResolved ==
    Compilable(program) =>
        /\ phase # "failed"
        /\ phase = "done" =>
              \A i \in DOMAIN program : \A name \in {"f", "h"} :
                  IsForwardCall(program, i, name) =>
                      /\ comp.code[stmt_offset(program, i) + 1] = OpCall
                      /\ operand16(comp.code, stmt_offset(program, i)) = comp.subs[name][1]
                      /\ comp.code[comp.subs[name][1] + 1] = OpEnterFrame

\* C2: in a returned module the operand of every Call instruction is the
\* address module.subs records for some subroutine.
C2_CallOperandsAreSubs ==
    phase = "done" =>
        \A pc \in instrs(module[1].code, OpCall) :
            operand16(module[1].code, pc) \in {e[2] : e \in Elems(module[1].subs)}

\* C8: the returned code ends in Halt, every Jump, JumpIf and JumpIfNot
\* operand is below len(code), and no placeholder is left unpatched.
C8_HaltAndJumpsInRange ==
    phase = "done" =>
        /\ comp.code[Len(comp.code)] = OpHalt
        /\ \A op \in {OpJump, OpJumpIf, OpJumpIfNot} : \A pc \in instrs(comp.code, op) :
              operand16(comp.code, pc) < Len(comp.code)
        /\ comp.pending = {}

\* A returned module whose code holds patched jumps of all three kinds.
C8_Witness ==
    /\ phase = "done"
    /\ \A op \in {OpJump, OpJumpIf, OpJumpIfNot} :
          \E pc \in instrs(comp.code, op) : operand16(comp.code, pc) > 0

NoDuplicates(seq) == \A i, j \in DOMAIN seq : seq[i] = seq[j] => i = j

\* The strings add_string is tried with on every pool compilation reaches.
PoolProbes == {<<chH>>, <<chH, chUpH>>, <<chDot>>, <<chUpH>>, <<>>}

\* C9: the pool never holds two equal strings; add_string keeps what the pool
\* holds where it is, returns the index of the string, and returns it again
\* for an equal string; every PushStr operand is below len(strings).
C9_StringPoolInterned ==
    /\ NoDuplicates(comp.strings)
    /\ \A s \in PoolProbes :
          LET r == add_string(comp.strings, s)
          IN  /\ SubSeq(r.strings, 1, Len(comp.strings)) = comp.strings
              /\ r.idx < Len(r.strings) /\ r.strings[r.idx + 1] = s
              /\ NoDuplicates(r.strings)
              /\ add_string(r.strings, s) = r
    /\ phase = "done" =>
          \A pc \in instrs(comp.code, OpPushStr) :
              operand16(comp.code, pc) < Len(comp.strings)

\* A returned module in which one pool entry serves several PushStr.
C9_Witness ==
    /\ phase = "done"
    /\ Len(comp.strings) >= 3
    /\ Cardinality(instrs(comp.code, OpPushStr)) > Len(comp.strings)

\* C10: the second compilation of a program returns the module the first
\* returned, the order of the subroutine table included.
C10_SameModuleTwice ==
    (run = 2 /\ phase = "done") => module = first

\* ------------------------------------------------------------------------
\* z80.rs: memory layout, the ROM's bytecode image, the interpreter's memory
\* ------------------------------------------------------------------------
PORT_CONSOLE == 0
BYTECODE_ORG == 4096
STACK_TOP == 65534
VM_STACK == 32768
HEAP_BASE == 8192
vm_sp_addr == 12288
vm_pc_addr == vm_sp_addr + 10
code_start == 10
bc_code_start == BYTECODE_ORG + code_start

RECURSIVE string_table(_)
\* for s in &module.strings { img.push(s.len() as u8); img.extend(s.as_bytes()) }
string_table(strings) ==
    IF strings = <<>> THEN <<>>
    ELSE <<Len(Head(strings)) % U8>> \o Head(strings) \o string_table(Tail(strings))

\* Header "MPL\x01", string table offset, code length, entry; code; strings.
generate_bytecode_image(m) ==
    LET string_table_offset == (code_start + Len(m.code)) % U16
    IN  <<77, 80, 76, 1>>
        \o <<string_table_offset % U8, string_table_offset \div U8>>
        \o <<Len(m.code) % U8, (Len(m.code) \div U8) % U8>>
        \o <<m.entry % U8, (m.entry \div U8) % U8>>
        \o m.code
        \o <<Len(m.strings) % U8>> \o string_table(m.strings)

\* generate_runtime: the interpreter's machine code, the bytes the assembler
\* calls of generate_runtime emit, entry point at 0x0000.
generate_runtime ==
    << 49, 254, 255, 243, 33, 0, 128, 34, 0, 48, 34, 2, 48, 33, 0, 32, 34, 4, 48, 33,
       10, 16, 34, 6, 48, 33, 4, 16, 94, 35, 86, 33, 0, 16, 25, 34, 8, 48, 33, 8,
       16, 94, 35, 86, 235, 34, 10, 48, 195, 51, 0, 42, 10, 48, 237, 91, 6, 48, 25, 126,
       254, 240, 202, 254, 4, 229, 254, 1, 194, 98, 0, 35, 94, 35, 86, 42, 0, 48, 43, 114,
       43, 115, 34, 0, 48, 42, 10, 48, 17, 3, 0, 25, 34, 10, 48, 195, 51, 0, 254, 2,
       194, 138, 0, 35, 126, 95, 22, 0, 203, 127, 202, 115, 0, 22, 255, 42, 0, 48, 43, 114,
       43, 115, 34, 0, 48, 42, 10, 48, 17, 2, 0, 25, 34, 10, 48, 195, 51, 0, 254, 24,
       194, 194, 0, 35, 94, 35, 86, 213, 42, 8, 48, 35, 209, 123, 183, 202, 170, 0, 126, 79,
       6, 0, 3, 9, 27, 123, 178, 194, 158, 0, 235, 42, 0, 48, 43, 114, 43, 115, 34, 0,
       48, 42, 10, 48, 17, 3, 0, 25, 34, 10, 48, 195, 51, 0, 254, 120, 194, 13, 1, 42,
       0, 48, 94, 35, 86, 35, 34, 0, 48, 122, 254, 16, 218, 232, 0, 235, 70, 35, 120, 183,
       202, 229, 0, 126, 211, 0, 35, 16, 250, 195, 0, 1, 123, 6, 47, 4, 214, 10, 48, 251,
       198, 10, 245, 120, 254, 48, 202, 251, 0, 211, 0, 241, 198, 48, 211, 0, 42, 10, 48, 17,
       1, 0, 25, 34, 10, 48, 195, 51, 0, 254, 16, 194, 56, 1, 35, 126, 95, 22, 0, 235,
       41, 235, 42, 2, 48, 25, 94, 35, 86, 42, 0, 48, 43, 114, 43, 115, 34, 0, 48, 42,
       10, 48, 17, 2, 0, 25, 34, 10, 48, 195, 51, 0, 254, 17, 194, 102, 1, 35, 126, 245,
       42, 0, 48, 94, 35, 86, 35, 34, 0, 48, 241, 111, 38, 0, 41, 213, 235, 42, 2, 48,
       25, 209, 115, 35, 114, 42, 10, 48, 17, 2, 0, 25, 34, 10, 48, 195, 51, 0, 254, 48,
       194, 154, 1, 42, 0, 48, 94, 35, 86, 35, 34, 0, 48, 213, 42, 0, 48, 94, 35, 86,
       35, 34, 0, 48, 225, 25, 235, 42, 0, 48, 43, 114, 43, 115, 34, 0, 48, 42, 10, 48,
       17, 1, 0, 25, 34, 10, 48, 195, 51, 0, 254, 66, 194, 217, 1, 42, 0, 48, 94, 35,
       86, 35, 34, 0, 48, 213, 42, 0, 48, 94, 35, 86, 35, 34, 0, 48, 225, 235, 183, 237,
       82, 17, 0, 0, 203, 124, 202, 194, 1, 19, 42, 0, 48, 43, 114, 43, 115, 34, 0, 48,
       42, 10, 48, 17, 1, 0, 25, 34, 10, 48, 195, 51, 0, 254, 68, 194, 23, 2, 42, 0,
       48, 94, 35, 86, 35, 34, 0, 48, 213, 42, 0, 48, 94, 35, 86, 35, 34, 0, 48, 225,
       183, 237, 82, 17, 1, 0, 203, 124, 202, 0, 2, 27, 42, 0, 48, 43, 114, 43, 115, 34,
       0, 48, 42, 10, 48, 17, 1, 0, 25, 34, 10, 48, 195, 51, 0, 254, 64, 194, 85, 2,
       42, 0, 48, 94, 35, 86, 35, 34, 0, 48, 213, 42, 0, 48, 94, 35, 86, 35, 34, 0,
       48, 225, 183, 237, 82, 17, 0, 0, 124, 181, 194, 62, 2, 19, 42, 0, 48, 43, 114, 43,
       115, 34, 0, 48, 42, 10, 48, 17, 1, 0, 25, 34, 10, 48, 195, 51, 0, 254, 52, 194,
       143, 2, 42, 0, 48, 94, 35, 86, 35, 34, 0, 48, 213, 42, 0, 48, 94, 35, 86, 35,
       34, 0, 48, 235, 209, 183, 237, 82, 48, 251, 25, 235, 42, 0, 48, 43, 114, 43, 115, 34,
       0, 48, 42, 10, 48, 17, 1, 0, 25, 34, 10, 48, 195, 51, 0, 254, 96, 194, 159, 2,
       35, 94, 35, 86, 235, 34, 10, 48, 195, 51, 0, 254, 98, 194, 204, 2, 42, 0, 48, 94,
       35, 86, 35, 34, 0, 48, 123, 178, 202, 192, 2, 42, 10, 48, 17, 3, 0, 25, 34, 10,
       48, 195, 51, 0, 225, 35, 94, 35, 86, 235, 34, 10, 48, 195, 51, 0, 254, 54, 194, 243,
       2, 42, 0, 48, 94, 35, 86, 35, 34, 0, 48, 19, 42, 0, 48, 43, 114, 43, 115, 34,
       0, 48, 42, 10, 48, 17, 1, 0, 25, 34, 10, 48, 195, 51, 0, 254, 4, 194, 21, 3,
       42, 0, 48, 94, 35, 86, 42, 0, 48, 43, 114, 43, 115, 34, 0, 48, 42, 10, 48, 17,
       1, 0, 25, 34, 10, 48, 195, 51, 0, 254, 3, 194, 49, 3, 42, 0, 48, 94, 35, 86,
       35, 34, 0, 48, 42, 10, 48, 17, 1, 0, 25, 34, 10, 48, 195, 51, 0, 254, 104, 194,
       98, 3, 35, 94, 35, 86, 213, 42, 10, 48, 17, 3, 0, 25, 235, 42, 0, 48, 43, 114,
       43, 115, 34, 0, 48, 42, 2, 48, 235, 42, 0, 48, 43, 114, 43, 115, 34, 0, 48, 225,
       34, 10, 48, 195, 51, 0, 254, 112, 194, 127, 3, 35, 42, 0, 48, 17, 4, 0, 25, 34,
       2, 48, 42, 10, 48, 17, 2, 0, 25, 34, 10, 48, 195, 51, 0, 254, 113, 194, 157, 3,
       42, 2, 48, 17, 4, 0, 183, 237, 82, 34, 0, 48, 42, 10, 48, 17, 1, 0, 25, 34,
       10, 48, 195, 51, 0, 254, 106, 194, 193, 3, 42, 0, 48, 94, 35, 86, 35, 34, 0, 48,
       235, 34, 2, 48, 42, 0, 48, 94, 35, 86, 35, 34, 0, 48, 235, 34, 10, 48, 195, 51,
       0, 254, 80, 194, 240, 3, 42, 0, 48, 94, 35, 86, 35, 34, 0, 48, 123, 178, 17, 1,
       0, 202, 217, 3, 27, 42, 0, 48, 43, 114, 43, 115, 34, 0, 48, 42, 10, 48, 17, 1,
       0, 25, 34, 10, 48, 195, 51, 0, 254, 81, 194, 48, 4, 42, 0, 48, 94, 35, 86, 35,
       34, 0, 48, 213, 42, 0, 48, 94, 35, 86, 35, 34, 0, 48, 122, 179, 193, 17, 0, 0,
       202, 25, 4, 120, 177, 202, 25, 4, 19, 42, 0, 48, 43, 114, 43, 115, 34, 0, 48, 42,
       10, 48, 17, 1, 0, 25, 34, 10, 48, 195, 51, 0, 254, 82, 194, 112, 4, 42, 0, 48,
       94, 35, 86, 35, 34, 0, 48, 213, 42, 0, 48, 94, 35, 86, 35, 34, 0, 48, 122, 179,
       193, 17, 1, 0, 194, 89, 4, 120, 177, 194, 89, 4, 27, 42, 0, 48, 43, 114, 43, 115,
       34, 0, 48, 42, 10, 48, 17, 1, 0, 25, 34, 10, 48, 195, 51, 0, 254, 136, 194, 253,
       4, 42, 0, 48, 94, 35, 86, 35, 34, 0, 48, 213, 42, 0, 48, 94, 35, 86, 35, 34,
       0, 48, 225, 213, 70, 35, 26, 79, 19, 197, 229, 213, 121, 184, 218, 223, 4, 120, 183, 202,
       193, 4, 126, 254, 46, 194, 170, 4, 35, 19, 5, 195, 153, 4, 126, 229, 235, 190, 235, 225,
       202, 187, 4, 209, 225, 193, 19, 13, 195, 145, 4, 35, 19, 5, 195, 153, 4, 209, 225, 193,
       209, 17, 1, 0, 42, 0, 48, 43, 114, 43, 115, 34, 0, 48, 42, 10, 48, 17, 1, 0,
       25, 34, 10, 48, 195, 51, 0, 209, 225, 193, 209, 17, 0, 0, 42, 0, 48, 43, 114, 43,
       115, 34, 0, 48, 42, 10, 48, 17, 1, 0, 25, 34, 10, 48, 195, 51, 0, 225, 225, 118 >>

\* Zero bytes pushed while the ROM is shorter than BYTECODE_ORG.
rom_padding(rom) == [i \in 1..(BYTECODE_ORG - Len(rom)) |-> 0]

\* generate_rom without the padding loop.
generate_rom_unpadded(m) == generate_runtime \o generate_bytecode_image(m)

\* generate_rom: the runtime, the padding, the bytecode image.
generate_rom(m) ==
    generate_runtime \o rom_padding(generate_runtime) \o generate_bytecode_image(m)

RECURSIVE binary_strings(_)
\* main.rs, generate_binary: the loop over module.strings.
binary_strings(strings) ==
    IF strings = <<>> THEN <<>>
    ELSE <<Len(Head(strings)) % U8>> \o Head(strings) \o binary_strings(Tail(strings))

\* main.rs, generate_binary: the standalone image that `-o` writes.
generate_binary(m) ==
    LET string_table_offset == (10 + Len(m.code)) % U16
    IN  <<77, 80, 76, 1>>
        \o <<string_table_offset % U8, (string_table_offset \div U8) % U8>>
        \o <<Len(m.code) % U8, (Len(m.code) \div U8) % U8>>
        \o <<m.entry % U8, (m.entry \div U8) % U8>>
        \o m.code
        \o <<Len(m.strings) % U8>>
        \o binary_strings(m.strings)

\* What the Z80 sees from BYTECODE_ORG on when the ROM is mapped at 0.
rom_image(rom) == SubSeq(rom, BYTECODE_ORG + 1, Len(rom))

InImage(a) == a >= BYTECODE_ORG /\ a < BYTECODE_ORG + Len(image)

\* RAM the interpreter's own cells and the Z80's stack do not occupy.
InRam(a) ==
    \/ a >= HEAP_BASE /\ a < vm_sp_addr
    \/ a >= vm_pc_addr + 2 /\ a < z80_sp - U8

Known(a) == InImage(a) \/ InRam(a)

\* The byte at address a: a cell written since reset, a byte of the image,
\* or what unwritten RAM holds.
Mem(r, a) ==
    IF a \in DOMAIN r THEN r[a]
    ELSE IF InImage(a) THEN image[a - BYTECODE_ORG + 1]
    ELSE fill

Mem16(r, a) == Mem(r, a) + U8 * Mem(r, (a + 1) % U16)

Poke16(r, a, v) == (a :> v % U8) @@ ((a + 1) % U16 :> (v \div U8) % U8) @@ r

\* The VM stack as the pair of vm_sp and the RAM written so far.
VmStack == [sp |-> vm_sp, ram |-> ram]

\* emit_vm_push_de: D goes to sp - 1, E to sp - 2, vm_sp becomes sp - 2.
emit_vm_push_de(m, de) ==
    [sp |-> (m.sp - 2) % U16, ram |-> Poke16(m.ram, (m.sp - 2) % U16, de)]

\* emit_vm_pop_de: the word it loads into DE, and the stack it leaves.
vm_top(m) == Mem16(m.ram, m.sp)

emit_vm_pop_de(m) == [m EXCEPT !.sp = (@ + 2) % U16]

\* emit_advance_pc
emit_advance_pc(n) == (vm_pc + n) % U16

\* HL after `LD HL,(vm_pc); LD DE,(vm_code); ADD HL,DE`
InstrAddr == (bc_code_start + vm_pc) % U16

Opcode == Mem(ram, InstrAddr)

Operand8 == Mem(ram, (InstrAddr + 1) % U16)

Operand16 == Mem16(ram, (InstrAddr + 1) % U16)

\* vm_strings: BYTECODE_ORG plus the header's string table offset.
vm_strings == (BYTECODE_ORG + Mem16(ram, BYTECODE_ORG + 4)) % U16

RECURSIVE skip_strings(_, _)
\* The skip loop of PUSHSTR: `de` times, HL += length byte + 1.
skip_strings(hl, de) ==
    IF de = 0 THEN hl
    ELSE skip_strings((hl + Mem(ram, hl) + 1) % U16, de - 1)

\* The pointer PUSHSTR pushes: only E is tested before the skip loop, the
\* loop itself counts DE down to zero.
string_ptr(idx) ==
    IF idx % U8 = 0 THEN (vm_strings + 1) % U16
    ELSE skip_strings((vm_strings + 1) % U16, idx)

\* The string loop of PRINT sending the length byte too.
string_at_with_length(p) == [k \in 1..Mem(ram, p) + 1 |-> Mem(ram, (p + k - 1) % U16)]

\* The bytes of the length-prefixed string at p.
string_at(p) == [k \in 1..Mem(ram, p) |-> Mem(ram, (p + k) % U16)]

StringKnown(p) == Known(p) /\ \A k \in 1..Mem(ram, p) : Known((p + k) % U16)

\* PRINT for a number without the test of the tens digit against '0'.
print_number_leading_zero(de) == <<48 + ((de % U8) \div 10), 48 + ((de % U8) % 10)>>

\* What PRINT sends for a number: the low byte in decimal, the tens count
\* as one character when it is not zero, then the ones digit.
print_number(de) ==
    LET e == de % U8
    IN  IF e \div 10 = 0 THEN <<48 + (e % 10)>>
        ELSE <<48 + (e \div 10), 48 + (e % 10)>>

\* The accesses of one instruction stay in the image and in plain RAM.
InModel ==
    /\ Known(InstrAddr)
    /\ \A k \in 1..size(Opcode) - 1 : Known((InstrAddr + k) % U16)
    /\ vm_sp >= 4 /\ InRam(vm_sp - 4) /\ InRam(vm_sp + 4)
    /\ Opcode \in {OpLoadLocal, OpStoreLocal} => InRam(vm_fp) /\ InRam(vm_fp + 2 * U8)

Fetch(op) == status = "running" /\ InModel /\ Opcode = op

\* What every handler leaves alone.
Static ==
    UNCHANGED <<program, phase, comp, stmt_i, module, run, first, image, fill, front, nom>>

\* The end of a handler that left stack m and program counter pc; the
\* dispatcher's PUSH HL is still on the Z80 stack.
Done(m, pc) ==
    /\ vm_sp' = m.sp /\ ram' = m.ram /\ vm_pc' = pc
    /\ z80_sp' = (z80_sp - 2) % U16
    /\ Static

\* The operands of a binary handler: b is popped first, then a.
OperandB == vm_top(VmStack)
OperandA == vm_top(emit_vm_pop_de(VmStack))

\* The body of a binary handler: pops b, pops a, pushes the result, advances
\* the PC by one.
Binary(result) ==
    /\ Done(emit_vm_push_de(emit_vm_pop_de(emit_vm_pop_de(VmStack)), result % U16),
            emit_advance_pc(1))
    /\ UNCHANGED <<vm_fp, out, status, mt, calls>>

\* ------------------------------------------------------------------------
\* z80.rs: generate_runtime, one action per handler of the interpreter
\* ------------------------------------------------------------------------
\* Entry point at 0x0000 up to the jump into the main loop.
Boot ==
    /\ status = "reset"
    /\ z80_sp' = STACK_TOP
    /\ vm_sp' = VM_STACK /\ vm_fp' = VM_STACK
    /\ vm_pc' = Mem16(ram, BYTECODE_ORG + 8)
    /\ status' = "running"
    /\ UNCHANGED <<ram, out, mt, calls>>
    /\ Static

HandlePush ==
    /\ Fetch(OpPush)
    /\ Done(emit_vm_push_de(VmStack, Operand16), emit_advance_pc(3))
    /\ UNCHANGED <<vm_fp, out, status, mt, calls>>

\* PUSHBYTE: the operand sign-extended to 16 bits.
HandlePushByte ==
    /\ Fetch(OpPushByte)
    /\ Done(emit_vm_push_de(VmStack,
                            IF Operand8 >= U8 \div 2 THEN U16 - U8 + Operand8 ELSE Operand8),
            emit_advance_pc(2))
    /\ UNCHANGED <<vm_fp, out, status, mt, calls>>

HandlePushStr ==
    /\ Fetch(OpPushStr)
    /\ Done(emit_vm_push_de(VmStack, string_ptr(Operand16)), emit_advance_pc(3))
    /\ UNCHANGED <<vm_fp, out, status, mt, calls>>

\* PRINT: a value whose high byte is >= 0x10 is printed as the string it
\* points at, any other as a number.
HandlePrint ==
    /\ Fetch(OpPrint)
    /\ IF vm_top(VmStack) >= BYTECODE_ORG /\ ~StringKnown(vm_top(VmStack))
       THEN /\ status' = "stray"
            /\ UNCHANGED <<vm_sp, ram, vm_pc, z80_sp, out>>
            /\ Static
       ELSE /\ out' = out \o (IF vm_top(VmStack) >= BYTECODE_ORG
                              THEN string_at(vm_top(VmStack))
                              ELSE print_number(vm_top(VmStack)))
            /\ Done(emit_vm_pop_de(VmStack), emit_advance_pc(1))
            /\ UNCHANGED status
    /\ UNCHANGED <<vm_fp, mt, calls>>

\* The address of local slot idx: fp + idx * 2.
local_addr(idx) == (vm_fp + idx * 2) % U16

HandleLdLoc ==
    /\ Fetch(OpLoadLocal)
    /\ Done(emit_vm_push_de(VmStack, Mem16(ram, local_addr(Operand8))), emit_advance_pc(2))
    /\ UNCHANGED <<vm_fp, out, status, mt, calls>>

HandleStLoc ==
    /\ Fetch(OpStoreLocal)
    /\ Done([sp |-> emit_vm_pop_de(VmStack).sp,
             ram |-> Poke16(ram, local_addr(Operand8), vm_top(VmStack))],
            emit_advance_pc(2))
    /\ UNCHANGED <<vm_fp, out, status, mt, calls>>

HandleAdd ==
    /\ Fetch(OpAdd)
    /\ Binary(OperandA + OperandB)

\* a < b: bit 15 of a - b.
HandleCmpLt ==
    /\ Fetch(OpCmpLt)
    /\ Binary(IF (OperandA - OperandB) % U16 >= U16 \div 2 THEN 1 ELSE 0)

\* a <= b: bit 15 of b - a is clear.
HandleCmpLe ==
    /\ Fetch(OpCmpLe)
    /\ Binary(IF (OperandB - OperandA) % U16 >= U16 \div 2 THEN 0 ELSE 1)

HandleCmpEq ==
    /\ Fetch(OpCmpEq)
    /\ Binary(IF OperandA = OperandB THEN 1 ELSE 0)

\* Mod by repeated subtraction; with a zero divisor the loop never ends.
HandleMod ==
    /\ Fetch(OpMod)
    /\ IF vm_top(VmStack) = 0
       THEN /\ status' = "hung"
            /\ UNCHANGED <<vm_sp, ram, vm_pc, z80_sp>>
            /\ Static
       ELSE /\ Done(emit_vm_push_de(emit_vm_pop_de(emit_vm_pop_de(VmStack)),
                                    vm_top(emit_vm_pop_de(VmStack)) % vm_top(VmStack)),
                    emit_advance_pc(1))
            /\ UNCHANGED status
    /\ UNCHANGED <<vm_fp, out, mt, calls>>

HandleJump ==
    /\ Fetch(OpJump)
    /\ Done(VmStack, Operand16)
    /\ UNCHANGED <<vm_fp, out, status, mt, calls>>

\* JUMPIFNOT testing E alone, without `OR D`.
HandleJumpIfNotLowByte ==
    /\ Fetch(OpJumpIfNot)
    /\ vm_sp' = emit_vm_pop_de(VmStack).sp
    /\ IF vm_top(VmStack) % U8 = 0
       THEN vm_pc' = Operand16 /\ z80_sp' = z80_sp
       ELSE vm_pc' = emit_advance_pc(3) /\ z80_sp' = (z80_sp - 2) % U16
    /\ UNCHANGED <<ram, vm_fp, out, status, mt, calls>>
    /\ Static

\* JUMPIFNOT: the taken branch pops the dispatcher's HL to read the operand.
HandleJumpIfNot ==
    /\ Fetch(OpJumpIfNot)
    /\ vm_sp' = emit_vm_pop_de(VmStack).sp
    /\ IF vm_top(VmStack) = 0
       THEN vm_pc' = Operand16 /\ z80_sp' = z80_sp
       ELSE vm_pc' = emit_advance_pc(3) /\ z80_sp' = (z80_sp - 2) % U16
    /\ UNCHANGED <<ram, vm_fp, out, status, mt, calls>>
    /\ Static

HandleInc ==
    /\ Fetch(OpInc)
    /\ Done(emit_vm_push_de(emit_vm_pop_de(VmStack), (vm_top(VmStack) + 1) % U16),
            emit_advance_pc(1))
    /\ UNCHANGED <<vm_fp, out, status, mt, calls>>

HandleDup ==
    /\ Fetch(OpDup)
    /\ Done(emit_vm_push_de(VmStack, vm_top(VmStack)), emit_advance_pc(1))
    /\ UNCHANGED <<vm_fp, out, status, mt, calls>>

HandlePop ==
    /\ Fetch(OpPop)
    /\ Done(emit_vm_pop_de(VmStack), emit_advance_pc(1))
    /\ UNCHANGED <<vm_fp, out, status, mt, calls>>

\* CALL: push PC + 3, push FP, PC = target.
HandleCall ==
    /\ Fetch(OpCall)
    /\ Done(emit_vm_push_de(emit_vm_push_de(VmStack, emit_advance_pc(3)), vm_fp), Operand16)
    /\ calls' = [calls EXCEPT !.stack = Append(@, [p |-> vm_pc, fp |-> vm_fp, sp |-> vm_sp,
                                                   left |-> FALSE])]
    /\ UNCHANGED <<vm_fp, out, status, mt>>

\* ENTER: FP = SP + 4; the operand is skipped.
HandleEnter ==
    /\ Fetch(OpEnterFrame)
    /\ vm_fp' = (vm_sp + 4) % U16
    /\ Done(VmStack, emit_advance_pc(2))
    /\ UNCHANGED <<out, status, mt, calls>>

\* LEAVE: SP = FP - 4.
HandleLeave ==
    /\ Fetch(OpLeaveFrame)
    /\ Done([sp |-> (vm_fp - 4) % U16, ram |-> ram], emit_advance_pc(1))
    /\ calls' = IF calls.stack = <<>> THEN calls
                ELSE [calls EXCEPT !.stack[Len(calls.stack)].left = TRUE]
    /\ UNCHANGED <<vm_fp, out, status, mt>>

\* RETURN: pop FP, pop PC.
HandleReturn ==
    /\ Fetch(OpReturn)
    /\ vm_fp' = vm_top(VmStack)
    /\ Done(emit_vm_pop_de(emit_vm_pop_de(VmStack)), vm_top(emit_vm_pop_de(VmStack)))
    /\ calls' = IF calls.stack = <<>> THEN calls
                ELSE [stack |-> SubSeq(calls.stack, 1, Len(calls.stack) - 1),
                      last |-> <<[call |-> calls.stack[Len(calls.stack)],
                                  pc |-> vm_pc', fp |-> vm_fp', sp |-> vm_sp']>>]
    /\ UNCHANGED <<out, status, mt>>

HandleNot ==
    /\ Fetch(OpNot)
    /\ Done(emit_vm_push_de(emit_vm_pop_de(VmStack), IF vm_top(VmStack) = 0 THEN 1 ELSE 0),
            emit_advance_pc(1))
    /\ UNCHANGED <<vm_fp, out, status, mt, calls>>

HandleAnd ==
    /\ Fetch(OpAnd)
    /\ Binary(IF OperandA # 0 /\ OperandB # 0 THEN 1 ELSE 0)

HandleOr ==
    /\ Fetch(OpOr)
    /\ Binary(IF OperandA # 0 \/ OperandB # 0 THEN 1 ELSE 0)

\* A comparison without the wildcard.
match_char_literal(pc, sc) == pc = sc

\* MATCH: the comparison of one pattern character with one subject character.
match_char(pc, sc) == pc = chDot \/ pc = sc

\* MATCH up to the outer loop: pops the pattern pointer, then the subject
\* pointer, loads both lengths and steps over the length bytes.
MatchEnter ==
    /\ Fetch(OpMatch)
    /\ IF StringKnown(vm_top(VmStack)) /\ StringKnown(vm_top(emit_vm_pop_de(VmStack)))
       THEN /\ mt' = <<[b |-> Mem(ram, vm_top(VmStack)),
                        hl |-> (vm_top(VmStack) + 1) % U16,
                        c |-> Mem(ram, vm_top(emit_vm_pop_de(VmStack))),
                        de |-> (vm_top(emit_vm_pop_de(VmStack)) + 1) % U16,
                        sb |-> 0, shl |-> 0, sde |-> 0,
                        pat |-> string_at(vm_top(VmStack)),
                        subj |-> string_at(vm_top(emit_vm_pop_de(VmStack))),
                        pc |-> vm_pc, sp |-> vm_sp,
                        at |-> "outer", steps |-> 0]>>
            /\ status' = "matching"
            /\ Done(emit_vm_pop_de(emit_vm_pop_de(VmStack)), vm_pc)
       ELSE /\ status' = "stray"
            /\ UNCHANGED <<mt, vm_sp, ram, vm_pc, z80_sp>>
            /\ Static
    /\ UNCHANGED <<vm_fp, out, calls>>

\* The end of MATCH: push the result, advance the PC, back to the main loop.
MatchDone(result) ==
    /\ vm_sp' = emit_vm_push_de(VmStack, result).sp
    /\ ram' = emit_vm_push_de(VmStack, result).ram
    /\ vm_pc' = emit_advance_pc(1)
    /\ mt' = <<[mt[1] EXCEPT !.at = "done"]>>
    /\ status' = "running"

\* match_outer_loop: save B, HL and DE; fail when C < B.
MatchOuter ==
    /\ status = "matching" /\ mt[1].at = "outer"
    /\ IF mt[1].c < mt[1].b
       THEN MatchDone(0)
       ELSE /\ mt' = <<[mt[1] EXCEPT !.at = "inner", !.sb = mt[1].b,
                                     !.shl = mt[1].hl, !.sde = mt[1].de,
                                     !.steps = @ + 1]>>
            /\ UNCHANGED <<vm_sp, ram, vm_pc, status>>
    /\ UNCHANGED <<vm_fp, z80_sp, out, calls>>
    /\ Static

\* match_inner_loop: succeed when B = 0; on a matching character step both
\* pointers; on a mismatch restore and move one position on in the subject.
MatchInner ==
    /\ status = "matching" /\ mt[1].at = "inner"
    /\ IF mt[1].b = 0
       THEN MatchDone(1)
       ELSE /\ mt' = IF match_char(Mem(ram, mt[1].hl), Mem(ram, mt[1].de))
                     THEN <<[mt[1] EXCEPT !.hl = (@ + 1) % U16, !.de = (@ + 1) % U16,
                                          !.b = (@ - 1) % U8, !.steps = @ + 1]>>
                     ELSE <<[mt[1] EXCEPT !.at = "outer", !.b = mt[1].sb,
                                          !.hl = mt[1].shl,
                                          !.de = (mt[1].sde + 1) % U16,
                                          !.c = (@ - 1) % U8, !.steps = @ + 1]>>
            /\ UNCHANGED <<vm_sp, ram, vm_pc, status>>
    /\ UNCHANGED <<vm_fp, z80_sp, out, calls>>
    /\ Static

\* The opcodes the main loop has a handler for.
Handled ==
    {OpPush, OpPushByte, OpPushStr, OpPrint, OpLoadLocal, OpStoreLocal, OpAdd, OpCmpLt,
     OpCmpLe, OpCmpEq, OpMod, OpJump, OpJumpIfNot, OpInc, OpDup, OpPop, OpCall,
     OpEnterFrame, OpLeaveFrame, OpReturn, OpNot, OpAnd, OpOr, OpMatch}

\* HALT is tested before the dispatcher's PUSH HL; its handler still pops.
HandleHalt ==
    /\ Fetch(OpHalt)
    /\ status' = "halted"
    /\ z80_sp' = (z80_sp + 2) % U16
    /\ UNCHANGED <<ram, vm_sp, vm_fp, vm_pc, out, mt, calls>>
    /\ Static

\* A default case that steps over the opcode and returns to the main loop.
HandleUnknownSkipped ==
    /\ status = "running" /\ InModel
    /\ Opcode \notin Handled \cup {OpHalt}
    /\ Done(VmStack, emit_advance_pc(1))
    /\ UNCHANGED <<vm_fp, out, status, mt, calls>>

\* Default: an opcode without a handler pops HL and falls into HALT.
HandleUnknown ==
    /\ status = "running" /\ InModel
    /\ Opcode \notin Handled \cup {OpHalt}
    /\ status' = "halted"
    /\ z80_sp' = (z80_sp + 2) % U16
    /\ UNCHANGED <<ram, vm_sp, vm_fp, vm_pc, out, mt, calls>>
    /\ Static

\* The interpreter reads or writes memory this model does not know.
Stray ==
    /\ status = "running" /\ ~InModel
    /\ status' = "stray"
    /\ UNCHANGED <<ram, vm_sp, vm_fp, vm_pc, z80_sp, out, mt, calls>>
    /\ Static

\* ------------------------------------------------------------------------
\* Programs run on the interpreter
\* ------------------------------------------------------------------------
MaxParams == 3
MaxDepth == 2
MaxSubjLen == 3
MaxPatLen == 2

ParamNames == <<"a", "b", "c", "d", "e">>
SubNames == <<"g1", "g2", "g3", "g4", "g5">>

\* sub f { return c; } print f() + d;
RetProg(c, d) ==
    <<Sub("f", <<>>, <<Return(<<Integer(c)>>)>>),
      PrintStmt(<<BinOp(Call("f", <<>>), "Add", Integer(d))>>)>>

RetProgs == {RetProg(c, d) : c \in {5, 40}, d \in {10, 59}}

\* sub f($a, ..) { print <parameter i>; } f(1, .., n);
ArgProg(n, i) ==
    <<Sub("f", [k \in 1..n |-> ParamNames[k]], <<PrintStmt(<<ScalarVar(ParamNames[i + 1])>>)>>),
      ExprStmt(Call("f", [k \in 1..n |-> Integer(k)]))>>

ArgProgs == UNION {{ArgProg(n, i) : i \in 0..n - 1} : n \in 1..MaxParams}

\* What a callee does between EnterFrame and LeaveFrame.
CalleeBodies ==
    {<<>>,
     <<My(<<"x">>, <<Integer(9)>>)>>,
     <<ExprStmt(Integer(7))>>,
     <<PrintStmt(<<Integer(3)>>)>>}

\* Subs g1 .. gd, each running its body and then calling the one before it,
\* and a top-level call of gd.
ChainProg(bodies) ==
    [k \in 1..Len(bodies) |->
        Sub(SubNames[k], <<>>,
            bodies[k] \o (IF k > 1 THEN <<ExprStmt(Call(SubNames[k - 1], <<>>))>>
                          ELSE <<>>))]
    \o <<ExprStmt(Call(SubNames[Len(bodies)], <<>>))>>

ChainProgs == {ChainProg(b) : b \in UNION {[1..d -> CalleeBodies] : d \in 1..MaxDepth}}

\* my $i = 0; while ($i < 2) { $i++; } print $i;
LoopProg ==
    <<My(<<"i">>, <<Integer(0)>>),
      While(BinOp(ScalarVar("i"), "Lt", Integer(2)),
            <<ExprStmt(PostIncrement(ScalarVar("i")))>>),
      PrintStmt(<<ScalarVar("i"), String(<<chH, chUpH>>)>>)>>

LogicProgs ==
    {<<PrintStmt(<<BinOp(Integer(a), op, Integer(b))>>)>> :
        a \in {1, 65535}, b \in {0, 2}, op \in {"Add", "Le", "Eq", "And", "Or", "Mod", "Sub"}}
    \cup {<<PrintStmt(<<UnaryOp("Not", Integer(a))>>)>> : a \in {0, 2}}

\* print "s" =~ /p/;
MatchProg(s, p) == <<PrintStmt(<<Match(String(s), p)>>)>>

\* print "s" !~ /p/;
NotMatchProg(s, p) == <<PrintStmt(<<NotMatch(String(s), p)>>)>>

\* Strings over alphabet of length at most n.
StringsUpTo(alphabet, n) == UNION {[1..k -> alphabet] : k \in 0..n}

Subjects == StringsUpTo({chH, chUpH}, MaxSubjLen)
Patterns == StringsUpTo({chH, chUpH, chDot}, MaxPatLen)

MatchProgs ==
    {MatchProg(s, p) : s \in Subjects, p \in Patterns}
    \cup {NotMatchProg(s, p) : s \in Subjects, p \in Patterns}

\* sub g1 { my $x = 9; } sub g2 { g1(); } g2(); my $y = 1;
LocalAfterChain ==
    ChainProg(<<<<My(<<"x">>, <<Integer(9)>>)>>, <<>>>>) \o <<My(<<"y">>, <<Integer(1)>>)>>

\* print "hh..h"; with a literal of n characters.
LongStringProg(n) == <<PrintStmt(<<String([k \in 1..n |-> chH])>>)>>

MaxNumber == 120

\* print n;
PrintNumProg(n) == <<PrintStmt(<<Integer(n)>>)>>

PrintNumProgs == {PrintNumProg(n) : n \in 0..MaxNumber}

VmPrograms ==
    RetProgs \cup ArgProgs \cup ChainProgs \cup LogicProgs
    \cup {LoopProg, LocalAfterChain, MatchProg(<<chH, chUpH>>, <<chDot, chUpH>>),
          NotMatchProg(<<chH>>, <<chUpH>>),
          LongStringProg(U8 - 1), LongStringProg(U8)}
    \cup PrintNumProgs

\* ------------------------------------------------------------------------
\* The interpreter as a state machine
\* ------------------------------------------------------------------------
\* The Compilers that compile may end as, one per visiting order of subs.
Compiled(prog) ==
    LET k(c) == IF Ok(c) THEN {copy_subs(c, o) : o \in IterationOrders(c.subs)} ELSE {}
    IN  k(compile(prog, <<>>))

\* generate_rom: the runtime, padding up to BYTECODE_ORG, then the image of
\* a module that compile returned; the machine is at reset.
InitRom(progs) ==
    /\ program \in progs
    /\ comp \in Compiled(program)
    /\ phase = "done" /\ stmt_i = Len(program) + 1
    /\ module = <<ModuleOf(comp)>> /\ run = 1 /\ first = <<>>
    /\ image = rom_image(generate_rom(module[1]))
    /\ fill \in {0, U8 - 1}
    /\ ram = EmptyMap
    /\ vm_sp = fill + U8 * fill /\ vm_fp = fill + U8 * fill /\ vm_pc = fill + U8 * fill
    /\ z80_sp = U16 - 1
    /\ out = <<>> /\ status = "reset" /\ mt = <<>>
    /\ calls = [stack |-> <<>>, last |-> <<>>]
    /\ FrontOff /\ NomOff

InitVM == InitRom(VmPrograms)

NextVM ==
    \/ Boot
    \/ HandlePush
    \/ HandlePushStr
    \/ HandlePrint
    \/ HandleLdLoc
    \/ HandleStLoc
    \/ HandleAdd
    \/ HandleCmpLt
    \/ HandleCmpLe
    \/ HandleCmpEq
    \/ HandleMod
    \/ HandleJump
    \/ HandleJumpIfNot
    \/ HandleInc
    \/ HandleDup
    \/ HandlePop
    \/ HandleCall
    \/ HandleEnter
    \/ HandleLeave
    \/ HandleReturn
    \/ HandleNot
    \/ HandleAnd
    \/ HandleOr
    \/ MatchEnter
    \/ MatchOuter
    \/ MatchInner
    \/ HandleHalt
    \/ HandleUnknown
    \/ Stray

SpecVM == InitVM /\ [][NextVM]_vars

InitMatch == InitRom(MatchProgs)

\* The handlers a program of MatchProgs reaches.
NextMatch ==
    \/ Boot
    \/ HandlePushStr
    \/ MatchEnter
    \/ MatchOuter
    \/ MatchInner
    \/ HandleNot
    \/ HandlePrint
    \/ HandleHalt

\* The Z80 executes an instruction whenever it is not halted.
SpecMatch == InitMatch /\ [][NextMatch]_vars /\ WF_vars(NextMatch)

\* ------------------------------------------------------------------------
\* Properties of the interpreter
\* ------------------------------------------------------------------------
\* The characters PRINT writes for n, 0 <= n <= 99: tens digit, then ones.
Digits(n) == IF n < 10 THEN <<48 + n>> ELSE <<48 + (n \div 10), 48 + (n % 10)>>

\* C3: a program `sub f { return c; } print f() + d;` that has stopped has
\* written the decimal digits of c + d to the console.
C3_ReturnValuePrinted ==
    \A c \in {5, 40}, d \in {10, 59} :
        program = RetProg(c, d) /\ status = "halted" => out = Digits(c + d)

\* C4: in `sub f(n parameters) { print <parameter i>; } f(1, .., n);` the
\* LoadLocal of slot i yields the i-th argument, i + 1.
C4_SlotIsArgument ==
    \A n \in 1..MaxParams : \A i \in 0..n - 1 :
        program = ArgProg(n, i) /\ status = "running" /\ InModel /\ Opcode = OpPrint
            => vm_top(VmStack) = i + 1

\* C5: after the Return of a Call at offset p whose callee ran LeaveFrame,
\* vm_pc = p + 3 and vm_fp and vm_sp are what they were before the Call.
C5_FrameDiscipline ==
    calls.last # <<>> /\ calls.last[1].call.left
        => /\ calls.last[1].pc = calls.last[1].call.p + 3
           /\ calls.last[1].fp = calls.last[1].call.fp
           /\ calls.last[1].sp = calls.last[1].call.sp

\* The subject and the pattern of a program of MatchProgs.
ProgSubject == program[1].exprs[1].expr.s
ProgPattern == program[1].exprs[1].pattern

\* Whether pattern p occurs in subject s, `.` standing for any character.
Matches(s, p) ==
    \E i \in 0..Len(s) - Len(p) : \A j \in 1..Len(p) : p[j] = chDot \/ p[j] = s[i + j]

MatchValue(s, p) == IF Matches(s, p) THEN 1 ELSE 0

\* MATCH has just pushed its result.
JustMatched ==
    /\ mt # <<>> /\ mt[1].at = "done"
    /\ status = "running" /\ vm_pc = mt[1].pc + 1

C6_Result ==
    JustMatched
        => /\ mt[1].pat = ProgPattern /\ mt[1].subj = ProgSubject
           /\ vm_sp = mt[1].sp + 2
           /\ vm_top(VmStack) = MatchValue(ProgSubject, ProgPattern)

\* C6: Match takes the pattern from the top of the stack and the subject from
\* below it, leaves one word in their place, 1 exactly when the pattern
\* occurs in the subject at some offset (`.` matching any character) and 0
\* otherwise, and every Match comes to an end.
C6_MatchSemantics == [](C6_Result) /\ ((status = "matching") ~> (status = "running"))

\* A wildcard pattern found at the second offset after a mismatch at the first.
C6_Witness ==
    /\ JustMatched
    /\ mt[1].subj = <<chUpH, chH, chUpH>> /\ mt[1].pat = <<chH, chDot>>
    /\ vm_top(VmStack) = 1

\* C7: `s !~ /p/` compiles to the code of `s =~ /p/` followed by Not, and the
\* program prints 1 when the match result is 0 and 0 when it is 1.
C7_NotMatchNegates ==
    program[1].exprs[1].t = "NotMatch"
        => /\ compile_expr(NewCompiler, program[1].exprs[1]).code
                = compile_expr(NewCompiler, Match(String(ProgSubject), ProgPattern)).code
                  \o <<OpNot>>
           /\ module[1].code
                = compile_expr(NewCompiler, Match(String(ProgSubject), ProgPattern)).code
                  \o <<OpNot, OpPrint, OpHalt>>
           /\ status = "halted" => out = Digits(1 - MatchValue(ProgSubject, ProgPattern))

\* `!~` of a subject the pattern does not occur in has printed 1.
C7_Witness ==
    /\ program = NotMatchProg(<<chH, chH>>, <<chUpH>>)
    /\ status = "halted" /\ out = <<49>>

\* ------------------------------------------------------------------------
\* The ROM and the standalone image
\* ------------------------------------------------------------------------
\* The layout of a ROM: the runtime at offset 0, zero bytes up to
\* BYTECODE_ORG, the magic at BYTECODE_ORG.
RomLayout(rom) ==
    /\ Len(generate_runtime) <= BYTECODE_ORG
    /\ SubSeq(rom, 1, Len(generate_runtime)) = generate_runtime
    /\ \A i \in Len(generate_runtime) + 1..BYTECODE_ORG : rom[i] = 0
    /\ Len(rom) >= BYTECODE_ORG + 4
    /\ SubSeq(rom, BYTECODE_ORG + 1, BYTECODE_ORG + 4) = <<77, 80, 76, 1>>

\* C11: the ROM of the module has the interpreter at offset 0, zero-padded to
\* exactly 0x1000 bytes, 'M','P','L',1 at 0x1000, and from 0x1000 to its end
\* the very bytes generate_binary writes for the same module; these are the
\* bytes the machine is started with at BYTECODE_ORG.
C11_RomIsRuntimeThenBinary ==
    status # "off" =>
        /\ RomLayout(generate_rom(module[1]))
        /\ rom_image(generate_rom(module[1])) = generate_binary(module[1])
        /\ image = generate_binary(module[1])

\* A ROM whose module has code and a string pool, mapped and running.
C11_Witness ==
    /\ status = "running"
    /\ program = LoopProg
    /\ module[1].strings # <<>>
    /\ Len(generate_rom(module[1])) = BYTECODE_ORG + Len(generate_binary(module[1]))

\* ------------------------------------------------------------------------
\* The image format and its reader
\* ------------------------------------------------------------------------
\* The little-endian word at offset off of a byte sequence, 0 past its end.
Word(img, off) ==
    (IF off + 1 <= Len(img) THEN img[off + 1] ELSE 0)
    + U8 * (IF off + 2 <= Len(img) THEN img[off + 2] ELSE 0)

RECURSIVE read_strings(_, _, _)
\* n length-prefixed strings starting at offset off: one length byte, then
\* that many bytes, as far as the image goes.
read_strings(img, off, n) ==
    IF n = 0 \/ off + 1 > Len(img) THEN <<>>
    ELSE <<SubSeq(img, off + 2, off + 1 + img[off + 1])>>
         \o read_strings(img, off + 1 + img[off + 1], n - 1)

\* A reader of the format: the header's code length and entry, the code
\* after the header, the count byte at the string table offset and the
\* strings after it.
read_image(img) ==
    [code    |-> SubSeq(img, code_start + 1, code_start + Word(img, 6)),
     entry   |-> Word(img, 8),
     strings |-> read_strings(img, Word(img, 4) + 1,
                              IF Word(img, 4) + 1 <= Len(img) THEN img[Word(img, 4) + 1] ELSE 0)]

\* The header of the image of module m: magic, string table offset
\* 10 + len(code), code length, entry, then the code.
HeaderOf(img, m) ==
    /\ Len(img) >= code_start + Len(m.code) + 1
    /\ SubSeq(img, 1, 4) = <<77, 80, 76, 1>>
    /\ Word(img, 4) = code_start + Len(m.code)
    /\ Word(img, 6) = Len(m.code)
    /\ Word(img, 8) = m.entry
    /\ SubSeq(img, code_start + 1, code_start + Len(m.code)) = m.code

\* C12: the image of the module is the 10-byte header, the code and the
\* string table, and the reader of the format recovers from it the module's
\* code, entry and strings in order.
C12_ImageRoundTrip ==
    status # "off" =>
        /\ HeaderOf(image, module[1])
        /\ read_image(image) = [code    |-> module[1].code,
                                entry   |-> module[1].entry,
                                strings |-> module[1].strings]

\* The same for modules whose strings are shorter than 256 bytes.
C12_ShortStringsRoundTrip ==
    (status # "off" /\ \A k \in 1..Len(module[1].strings) : Len(module[1].strings[k]) < U8)
        => C12_ImageRoundTrip

\* ------------------------------------------------------------------------
\* Scopes, loops and variables: the compiler on programs that declare,
\* assign and read $y at several depths
\* ------------------------------------------------------------------------
MaxScopeStmts == 3

AssignY == ExprStmt(Assign(ScalarVar("y"), Integer(7)))
PrintY == PrintStmt(<<ScalarVar("y")>>)
MyX == My(<<"x">>, <<>>)
MyY == My(<<"y">>, <<>>)
OurY == Our(<<"y">>, <<>>)
BlockMyY == Block(<<MyY, PrintY>>)
BlockVivY == Block(<<AssignY, PrintY>>)
ForeachY == Foreach("y", List(<<Integer(1)>>), <<PrintY, Next_>>)
ForMyY == For(<<My(<<"y">>, <<Integer(0)>>)>>, <<>>, <<>>, <<PrintY, Last>>)
SubXY == Sub("s", <<"x", "y">>, <<PrintY>>)
SubNext == Sub("u", <<>>, <<Next_>>)
IfLast == If(Integer(0), <<>>, <<>>, << <<Last>> >>)
WhileSubNext ==
    While(Integer(1), <<Sub("t", <<>>, <<Next_>>), If(Integer(1), <<Last>>, <<>>, <<>>)>>)

ScopeStmts ==
    {AssignY, PrintY, MyX, OurY, BlockMyY, BlockVivY, ForeachY, ForMyY, SubXY,
     SubNext, IfLast, Last, WhileSubNext}

ScopePrograms == UNION {[1..n -> ScopeStmts] : n \in 0..MaxScopeStmts}

InitScope ==
    /\ program \in ScopePrograms
    /\ phase = "pass1" /\ comp = NewCompiler /\ stmt_i = 1
    /\ module = <<>> /\ run = 1 /\ first = <<>>
    /\ VmOff /\ FrontOff /\ NomOff

NextScope ==
    \/ Pass1
    \/ CompileTop
    \/ EmitHalt
    \/ PatchForwardRefs
    \/ CopySubs

SpecScope == InitScope /\ [][NextScope]_vars

\* What the language's rules say of a statement list, read in order: the
\* open scopes (name -> slot, and whether an assignment created the entry),
\* the globals, the number of enclosing loops, the variable accesses met so
\* far, and the first error.
Env0 ==
    [scopes |-> <<EmptyMap>>, globals |-> EmptyMap, depth |-> 0, acc |-> <<>>, err |-> ""]

\* The innermost open scope that holds name, 0 when none does.
Innermost(e, name) ==
    LET hits == {i \in 1..Len(e.scopes) : name \in DOMAIN e.scopes[i]}
    IN  IF hits = {} THEN 0 ELSE MaxOf(hits)

\* The open scope in which an assignment created name, 0 when none.
Vivified(e, name) ==
    LET hits == {i \in 1..Len(e.scopes) :
                    name \in DOMAIN e.scopes[i] /\ e.scopes[i][name].viv}
    IN  IF hits = {} THEN 0 ELSE MaxOf(hits)

Declare(e, name, slot, viv) ==
    [e EXCEPT !.scopes[Len(e.scopes)] = Insert(@, name, [slot |-> slot, viv |-> viv])]

InnerSize(e) == MapLen(e.scopes[Len(e.scopes)])

Open(e) == [e EXCEPT !.scopes = Append(@, EmptyMap)]

Close(e) == IF e.err = "" THEN [e EXCEPT !.scopes = SubSeq(@, 1, Len(@) - 1)] ELSE e

Record(e, r) == [e EXCEPT !.acc = Append(@, r)]

\* A read of name: the innermost declaration, else the global, else an error.
\* viv is the slot an assignment gave the name in a scope that is still open
\* (as an Option), shadowed tells that a declaration in a scope inside that
\* one hides it.
ReadOf(e, name) ==
    LET i == Innermost(e, name)
        v == Vivified(e, name)
    IN  IF i # 0
        THEN Record(e, [k |-> "read", op |-> OpLoadLocal, arg |-> e.scopes[i][name].slot,
                        viv |-> IF v # 0 THEN <<e.scopes[v][name].slot>> ELSE <<>>,
                        shadowed |-> v # 0 /\ i # v])
        ELSE IF name \in DOMAIN e.globals
        THEN Record(e, [k |-> "read", op |-> OpLoadGlobal, arg |-> e.globals[name],
                        viv |-> <<>>, shadowed |-> FALSE])
        ELSE [e EXCEPT !.err = "undefined"]

\* An assignment to name: the innermost declaration, else the global, else a
\* new local in the innermost scope.
AssignTo(e, name) ==
    LET i == Innermost(e, name)
    IN  IF i # 0
        THEN Record(e, [k |-> "store", op |-> OpStoreLocal, arg |-> e.scopes[i][name].slot,
                        viv |-> <<>>, shadowed |-> FALSE])
        ELSE IF name \in DOMAIN e.globals
        THEN Record(e, [k |-> "store", op |-> OpStoreGlobal, arg |-> e.globals[name],
                        viv |-> <<>>, shadowed |-> FALSE])
        ELSE Record(Declare(e, name, InnerSize(e), TRUE),
                    [k |-> "vivify", op |-> OpStoreLocal, arg |-> InnerSize(e),
                     viv |-> <<InnerSize(e)>>, shadowed |-> FALSE])

RECURSIVE DeclareAll(_, _, _)
DeclareAll(e, names, i) ==
    IF i > Len(names) THEN e
    ELSE DeclareAll(Declare(e, names[i], InnerSize(e), FALSE), names, i + 1)

RECURSIVE DeclareParams(_, _, _)
\* Parameter i of a sub is slot i - 1 of the scope of its body.
DeclareParams(e, names, i) ==
    IF i > Len(names) THEN e
    ELSE DeclareParams(Declare(e, names[i], i - 1, FALSE), names, i + 1)

RECURSIVE Walk(_, _)
\* The statements of ScopeStmts and what they are made of.
Walk(e, stmts) ==
    IF stmts = <<>> \/ e.err # "" THEN e
    ELSE LET s == Head(stmts)
             inloop(e1) == [e1 EXCEPT !.depth = @ + 1]
             outloop(e1) == IF e1.err = "" THEN [e1 EXCEPT !.depth = @ - 1] ELSE e1
             one ==
               CASE s.t = "Expr" -> AssignTo(e, s.e.target.name)
                 [] s.t = "Print" -> ReadOf(e, s.exprs[1].name)
                 [] s.t = "My" -> DeclareAll(e, s.vars, 1)
                 [] s.t = "Our" ->
                      [e EXCEPT !.globals = Insert(@, s.vars[1], MapLen(e.globals))]
                 [] s.t = "Block" -> Close(Walk(Open(e), s.stmts))
                 [] s.t = "If" ->
                      Walk(Walk(e, s.then_block),
                           IF s.else_block = <<>> THEN <<>> ELSE s.else_block[1])
                 [] s.t = "While" -> outloop(Walk(inloop(e), s.body))
                 [] s.t = "For" ->
                      Close(outloop(Walk(inloop(Walk(Open(e), s.init)), s.body)))
                 [] s.t = "Foreach" ->
                      Close(outloop(Walk(inloop(Declare(Open(e), s.var, 0, FALSE)), s.body)))
                 [] s.t = "Sub" -> Close(Walk(DeclareParams(Open(e), s.params, 1), s.body))
                 [] s.t \in {"Last", "Next"} ->
                      IF e.depth = 0 THEN [e EXCEPT !.err = "loose"] ELSE e
         IN  Walk(one, Tail(stmts))

RECURSIVE Listing(_, _)
\* The instructions of code from offset pc on, in order, each with its
\* operand (0 when it has none).
Listing(code, pc) ==
    IF pc >= Len(code) \/ pc + size(code[pc + 1]) > Len(code) THEN <<>>
    ELSE <<[op |-> code[pc + 1],
            arg |-> CASE size(code[pc + 1]) = 2 -> code[pc + 2]
                      [] size(code[pc + 1]) = 3 -> operand16(code, pc)
                      [] OTHER -> 0]>>
         \o Listing(code, pc + size(code[pc + 1]))

\* Restriction of a sequence to the indices in S, order kept.
RECURSIVE Pick(_, _, _)
Pick(seq, S, i) ==
    IF i > Len(seq) THEN <<>>
    ELSE (IF i \in S THEN <<seq[i]>> ELSE <<>>) \o Pick(seq, S, i + 1)

\* The variable accesses in a listing: the loads that a Print consumes and
\* the stores of an assignment expression (Dup, then the store).
Accesses(l) ==
    Pick(l,
         {i \in 1..Len(l) :
             \/ /\ l[i].op \in {OpLoadLocal, OpLoadGlobal}
                /\ i < Len(l) /\ l[i + 1].op = OpPrint
             \/ /\ l[i].op \in {OpStoreLocal, OpStoreGlobal}
                /\ i > 1 /\ l[i - 1].op = OpDup},
         1)

\* The statements compiled so far, by the rules.
Walked == Walk(Env0, SubSeq(program, 1, stmt_i - 1))

\* What the compiler emitted for the accesses of the statements so far.
Emitted == Accesses(Listing(comp.code, 0))

LooseMessages == {"'last' outside of loop", "'next' outside of loop"}

\* What C13 says of the statements walked as w.
LooseFails(w) ==
    /\ w.err = "loose" => phase = "failed" /\ comp.err \in LooseMessages /\ module = <<>>
    /\ comp.err \in LooseMessages => w.err = "loose"
    /\ phase = "failed" => module = <<>>

\* C13: a last or next that no loop encloses makes compile fail with its
\* error and no module is produced; a last or next inside a loop raises no
\* such error, and the program goes on to compile.
C13_LastNextNeedLoop == phase # "pass1" => LooseFails(Walked)

\* A loop with last and next in it (the next inside a sub inside the loop)
\* and two more loops compiled to a module.
C13_Witness ==
    /\ program = <<WhileSubNext, ForeachY, ForMyY>>
    /\ phase = "done" /\ module # <<>>

\* The accesses em the compiler emitted against the accesses acc of the
\* rules: the store of every creating assignment, and the reads of a name an
\* assignment created in a scope still open; with hidden, those reads too
\* that a declaration in a scope inside that one hides.
VivifiedSlots(acc, em, hidden) ==
    /\ Len(em) = Len(acc)
    /\ \A i \in 1..Len(acc) :
          /\ acc[i].k = "vivify" => em[i] = [op |-> OpStoreLocal, arg |-> acc[i].arg]
          /\ (acc[i].k = "read" /\ acc[i].viv # <<>> /\ (hidden \/ ~acc[i].shadowed)) =>
                em[i] = [op |-> OpLoadLocal, arg |-> acc[i].viv[1]]

Vivifies(w, hidden) ==
    w.err = "" => phase # "failed" /\ VivifiedSlots(w.acc, Emitted, hidden)

ReadsAsResolved(acc, em) ==
    /\ Len(em) = Len(acc)
    /\ \A i \in 1..Len(acc) :
          acc[i].k = "read" => em[i] = [op |-> acc[i].op, arg |-> acc[i].arg]

Resolves(w) ==
    /\ w.err = "undefined" =>
          phase = "failed" /\ comp.err = "Undefined variable" /\ module = <<>>
    /\ comp.err = "Undefined variable" => w.err = "undefined"
    /\ w.err = "" => ReadsAsResolved(w.acc, Emitted)

\* C15: a read is LoadLocal of the innermost open declaration of the name,
\* else LoadGlobal of the global of that name, else compilation fails with
\* the undefined-variable error; a name declared only in a scope that has
\* been closed is undefined, and a local hides a global.
C15_ReadResolution == phase # "pass1" => Resolves(Walked)

\* A global $y, a block whose `my $y` hides it, and a read after the block.
C15_Witness ==
    /\ program = <<OurY, BlockMyY, PrintY>>
    /\ phase = "done"
    /\ Emitted = <<[op |-> OpLoadLocal, arg |-> 0], [op |-> OpLoadGlobal, arg |-> 0]>>

\* ------------------------------------------------------------------------
\* Unknown opcodes and Print
\* ------------------------------------------------------------------------
\* The opcodes the dispatch loop compares the fetched byte with.
Implemented ==
    {OpHalt, OpPush, OpPushByte, OpPushStr, OpPrint, OpLoadLocal, OpStoreLocal, OpAdd,
     OpCmpEq, OpCmpLt, OpCmpLe, OpMod, OpJump, OpJumpIfNot, OpInc, OpDup, OpPop, OpCall,
     OpEnterFrame, OpLeaveFrame, OpReturn, OpNot, OpAnd, OpOr, OpMatch}

\* The dispatch loop is at an opcode byte it has no handler for.
AtUnknownOpcode == status = "running" /\ InModel /\ Opcode \notin Implemented

\* C18: at an opcode byte that is not implemented the interpreter halts with
\* vm_pc and vm_sp as they were and nothing written to the console, and
\* after a halt no instruction is executed: nothing changes any more.
C18_UnknownOpcodeHalts ==
    [][/\ AtUnknownOpcode =>
            status' = "halted" /\ vm_pc' = vm_pc /\ vm_sp' = vm_sp /\ out' = out
       /\ status # "halted"]_vars

\* print 1 - 2; stopped at the Sub opcode, which has no handler, the two
\* operands still on the stack.
C18_Witness ==
    /\ program = <<PrintStmt(<<BinOp(Integer(1), "Sub", Integer(2))>>)>>
    /\ status = "halted" /\ Opcode = OpSub
    /\ vm_pc = 6 /\ vm_sp = VM_STACK - 4 /\ out = <<>>

\* A step of the interpreter that executes a Print to its end.
PrintStep == status = "running" /\ InModel /\ Opcode = OpPrint /\ status' = "running"

\* What Print of the popped value v does by C19.
PrintsValue(v) ==
    /\ vm_sp' = vm_sp + 2
    /\ vm_pc' = vm_pc + 1
    /\ out' = out \o (IF v >= 4096
                      THEN [k \in 1..Mem(ram, v) |-> Mem(ram, (v + k) % U16)]
                      ELSE print_number(v))

\* C19: Print pops one value v; for v >= 0x1000 it writes the `length` bytes
\* after the length byte at address v, in order (nothing when the length is
\* 0), for v < 0x1000 it prints v as a number; vm_pc advances by 1.
C19_PrintDispatch == [][PrintStep => PrintsValue(Mem16(ram, vm_sp))]_vars

\* The loop program has printed the number 2 and then the string "hH".
C19_Witness ==
    /\ program = LoopProg /\ status = "halted"
    /\ out = <<50, chH, chUpH>>

\* C20: for 0 <= n <= 99 Print writes the decimal representation of n: the
\* tens digit only when n >= 10, then the ones digit.
C20_PrintDecimal ==
    [][(PrintStep /\ Mem16(ram, vm_sp) <= 99) =>
           out' = out \o Digits(Mem16(ram, vm_sp))]_vars

\* print 7; has written the one character '7'.
C20_Witness ==
    /\ program = PrintNumProg(7) /\ status = "halted"
    /\ out = <<55>>

\* ------------------------------------------------------------------------
\* lexer.rs: the Lexer over a source text of ASCII codes
\* ------------------------------------------------------------------------
chSlash == 47
chAssign == 61
chTilde == 126
chBang == 33
chGreater == 62
chBackslash == 92
chSemicolon == 59
chLBrace == 123
chRBrace == 125
chHash == 35
chNewline == 10
chSpace == 32
chUnderscore == 95
chBacktick == 96
ch0 == 48
ch1 == 49

\* Tokens: the variants without data, and Integer, Ident and Regex.
Tok(t) == [t |-> t]
TokInteger(n) == [t |-> "Integer", n |-> n]
TokIdent(name) == [t |-> "Ident", name |-> name]
TokRegex(pattern, flags) == [t |-> "Regex", pattern |-> pattern, flags |-> flags]

is_whitespace(c) == c \in {9, 10, 11, 12, 13, chSpace}
is_ascii_digit(c) == c >= ch0 /\ c <= ch0 + 9
is_alphabetic(c) == (c >= 65 /\ c <= 90) \/ (c >= 97 /\ c <= 122)
is_alphanumeric(c) == is_alphabetic(c) \/ is_ascii_digit(c)

\* Lexer::new
NewLexer(input) == [input |-> input, pos |-> 0, last_token |-> <<>>]

\* Lexer::current, as an Option
current(lx) == IF lx.pos < Len(lx.input) THEN <<lx.input[lx.pos + 1]>> ELSE <<>>

\* Lexer::advance
advance(lx) == IF current(lx) # <<>> THEN [lx EXCEPT !.pos = @ + 1] ELSE lx

RECURSIVE skip_comment(_)
\* The inner loop of skip_whitespace: up to the newline or the end.
skip_comment(lx) ==
    IF current(lx) = <<>> \/ current(lx) = <<chNewline>> THEN lx
    ELSE skip_comment(advance(lx))

RECURSIVE skip_whitespace(_)
skip_whitespace(lx) ==
    IF current(lx) = <<>> THEN lx
    ELSE IF is_whitespace(current(lx)[1]) THEN skip_whitespace(advance(lx))
    ELSE IF current(lx) = <<chHash>> THEN skip_whitespace(skip_comment(lx))
    ELSE lx

RECURSIVE read_digits(_, _)
\* read_number for a text without '.': digits are collected, '_' is skipped.
read_digits(lx, n) ==
    IF current(lx) = <<>> THEN [lx |-> lx, n |-> n]
    ELSE IF is_ascii_digit(current(lx)[1])
         THEN read_digits(advance(lx), 10 * n + current(lx)[1] - ch0)
    ELSE IF current(lx) = <<chUnderscore>> THEN read_digits(advance(lx), n)
    ELSE [lx |-> lx, n |-> n]

\* num_str.parse().unwrap_or(0) into an i32.
read_number(lx) ==
    LET k(r) == [lx |-> r.lx, token |-> TokInteger(IF r.n <= 2147483647 THEN r.n ELSE 0)]
    IN  k(read_digits(lx, 0))

RECURSIVE read_ident(_, _)
read_ident(lx, ident) ==
    IF current(lx) # <<>> /\ (is_alphanumeric(current(lx)[1]) \/ current(lx) = <<chUnderscore>>)
    THEN read_ident(advance(lx), Append(ident, current(lx)[1]))
    ELSE [lx |-> lx, token |-> TokIdent(ident)]

RECURSIVE read_pattern(_, _)
\* read_regex, first loop: up to the closing '/', a backslash taking the
\* character after it along.
read_pattern(lx, pattern) ==
    IF current(lx) = <<>> THEN [lx |-> lx, s |-> pattern]
    ELSE IF current(lx) = <<chSlash>> THEN [lx |-> advance(lx), s |-> pattern]
    ELSE IF current(lx) = <<chBackslash>>
         THEN (IF current(advance(lx)) # <<>>
               THEN read_pattern(advance(advance(lx)),
                                 pattern \o <<chBackslash, current(advance(lx))[1]>>)
               ELSE read_pattern(advance(lx), Append(pattern, chBackslash)))
    ELSE read_pattern(advance(lx), Append(pattern, current(lx)[1]))

RECURSIVE read_flags(_, _)
\* read_regex, second loop: the alphabetic characters after the pattern.
read_flags(lx, flags) ==
    IF current(lx) # <<>> /\ is_alphabetic(current(lx)[1])
    THEN read_flags(advance(lx), Append(flags, current(lx)[1]))
    ELSE [lx |-> lx, s |-> flags]

read_regex(lx) ==
    LET k2(p, f) == [lx |-> f.lx, token |-> TokRegex(p.s, f.s)]
        k1(p) == k2(p, read_flags(p.lx, <<>>))
    IN  k1(read_pattern(advance(lx), <<>>))

\* A token of two characters when the second one is c2.
two(lx, c2) == current(advance(lx)) = <<c2>>

\* The '=' arm of next_token.
equals(lx) ==
    IF two(lx, chAssign) THEN [lx |-> advance(advance(lx)), token |-> Tok("Eq")]
    ELSE IF two(lx, chTilde) THEN [lx |-> advance(advance(lx)), token |-> Tok("Match")]
    ELSE IF two(lx, chGreater) THEN [lx |-> advance(advance(lx)), token |-> Tok("FatArrow")]
    ELSE [lx |-> advance(lx), token |-> Tok("Assign")]

\* The '!' arm of next_token.
bang(lx) ==
    IF two(lx, chAssign) THEN [lx |-> advance(advance(lx)), token |-> Tok("Ne")]
    ELSE IF two(lx, chTilde) THEN [lx |-> advance(advance(lx)), token |-> Tok("NotMatch")]
    ELSE [lx |-> advance(lx), token |-> Tok("Not")]

\* The '/' arm of next_token outside a regex: '/=' or '/'.
slash_operator(lx) ==
    IF current(advance(lx)) = <<chAssign>>
    THEN [lx |-> advance(advance(lx)), token |-> Tok("SlashEquals")]
    ELSE [lx |-> advance(lx), token |-> Tok("Slash")]

\* The '/' arm of next_token with the test of last_token left out.
slash_never_regex(lx) == slash_operator(lx)

\* The '/' arm of next_token.
slash(lx) ==
    IF lx.last_token \in {<<Tok("Match")>>, <<Tok("NotMatch")>>} THEN read_regex(lx)
    ELSE slash_operator(lx)

\* The match of next_token on the current character, for the characters of
\* Pieces; a character that no arm of the lexer names is consumed and gives
\* Eof.
scan(lx) ==
    LET c == current(lx)[1]
    IN  CASE is_ascii_digit(c) -> read_number(lx)
          [] is_alphabetic(c) \/ c = chUnderscore -> read_ident(lx, <<>>)
          [] c = chSlash -> slash(lx)
          [] c = chAssign -> equals(lx)
          [] c = chBang -> bang(lx)
          [] c = chTilde -> [lx |-> advance(lx), token |-> Tok("BitNot")]
          [] c = chLBrace -> [lx |-> advance(lx), token |-> Tok("LBrace")]
          [] c = chRBrace -> [lx |-> advance(lx), token |-> Tok("RBrace")]
          [] c = chSemicolon -> [lx |-> advance(lx), token |-> Tok("Semicolon")]
          [] c = chBackslash -> [lx |-> advance(lx), token |-> Tok("Backslash")]
          [] OTHER -> [lx |-> advance(lx), token |-> Tok("Eof")]

\* Lexer::next_token: the Lexer it leaves and the token it returns.
next_token(lx) ==
    LET k2(r) == [lx |-> [r.lx EXCEPT !.last_token = <<r.token>>], token |-> r.token]
        k1(l) == k2(IF current(l) = <<>> THEN [lx |-> l, token |-> Tok("Eof")] ELSE scan(l))
    IN  k1(skip_whitespace(lx))

\* Lexer::tokenize, one turn of its loop on the state machine's Lexer: the
\* token is pushed, and Eof ends the loop.
tokenize_step(f) ==
    LET k(r) == [f EXCEPT !.pos = r.lx.pos, !.last_token = r.lx.last_token,
                          !.tokens = Append(@, r.token),
                          !.stage = IF r.token = Tok("Eof") THEN "parse" ELSE "lex"]
    IN  k(next_token([input |-> f.input, pos |-> f.pos, last_token |-> f.last_token]))

\* ------------------------------------------------------------------------
\* parser.rs: the Parser over the tokens of the sources of the model:
\* Integer, Ident, Regex, the operators of '=', '!', '/', '~' and '\', braces
\* and the semicolon. A result is Ok with a tree and the position after it,
\* or Err.
\* ------------------------------------------------------------------------
POk(v, p) == [ok |-> TRUE, v |-> v, p |-> p, err |-> ""]
PErr(p, msg) == [ok |-> FALSE, v |-> <<>>, p |-> p, err |-> msg]

\* Parser::current, Parser::advance, Parser::at
parser_current(ts, p) == IF p < Len(ts) THEN ts[p + 1] ELSE Tok("Eof")
parser_advance(ts, p) == IF p < Len(ts) THEN p + 1 ELSE p
at(ts, p, t) == parser_current(ts, p).t = t

\* Parser::expect, after a result r
expect(ts, r, t) ==
    IF ~r.ok THEN r
    ELSE IF at(ts, r.p, t) THEN POk(r.v, parser_advance(ts, r.p))
    ELSE PErr(r.p, "Expected token")

RECURSIVE parse_expr(_, _)
RECURSIVE parse_assignment(_, _)
RECURSIVE parse_comparison_loop(_, _)
RECURSIVE parse_multiplicative_loop(_, _)
RECURSIVE parse_unary(_, _)
RECURSIVE parse_postfix_loop(_, _)
RECURSIVE parse_hash_pairs(_, _, _)
RECURSIVE parse_statement(_, _)
RECURSIVE parse_stmt_list(_, _, _)

\* parse_primary: Integer, Ident (a call without arguments when no '('
\* follows), '{' opening a hash of key => value pairs.
parse_primary(ts, p) ==
    LET t == parser_current(ts, p)
    IN  CASE t.t = "Integer" -> POk(Integer(t.n), parser_advance(ts, p))
          [] t.t = "Ident" -> POk(Call(t.name, <<>>), parser_advance(ts, p))
          [] t.t = "LBrace" -> parse_hash_pairs(ts, parser_advance(ts, p), <<>>)
          [] OTHER -> PErr(p, "Unexpected token in expression")

\* The loop of the '{' arm of parse_primary.
parse_hash_pairs(ts, p, pairs) ==
    LET k2(key, value) ==
            IF ~value.ok THEN value
            ELSE parse_hash_pairs(ts, value.p, Append(pairs, <<key.v, value.v>>))
        k1(key) ==
            IF ~key.ok THEN key ELSE k2(key, parse_expr(ts, key.p))
    IN  IF at(ts, p, "RBrace") THEN POk(Hash(pairs), parser_advance(ts, p))
        ELSE k1(expect(ts, parse_expr(ts, p), "FatArrow"))

\* The loop of parse_postfix: '{' key '}' after an expression.
parse_postfix_loop(ts, r) ==
    LET k(key) ==
            IF ~key.ok THEN key
            ELSE parse_postfix_loop(ts, POk(HashIndex(r.v, key.v), key.p))
    IN  IF ~r.ok THEN r
        ELSE IF at(ts, r.p, "LBrace")
        THEN k(expect(ts, parse_expr(ts, parser_advance(ts, r.p)), "RBrace"))
        ELSE r

parse_postfix(ts, p) == parse_postfix_loop(ts, parse_primary(ts, p))

parse_unary(ts, p) ==
    LET k(r, op) ==
            IF ~r.ok THEN r
            ELSE IF op = "Ref" THEN POk(Ref(r.v), r.p)
            ELSE POk(UnaryOp(op, r.v), r.p)
    IN  CASE at(ts, p, "Not") -> k(parse_unary(ts, parser_advance(ts, p)), "Not")
          [] at(ts, p, "BitNot") -> k(parse_unary(ts, parser_advance(ts, p)), "BitNot")
          [] at(ts, p, "Backslash") -> k(parse_unary(ts, parser_advance(ts, p)), "Ref")
          [] OTHER -> parse_postfix(ts, p)

\* The loop of parse_multiplicative.
parse_multiplicative_loop(ts, left) ==
    LET k(right) ==
            IF ~right.ok THEN right
            ELSE parse_multiplicative_loop(ts, POk(BinOp(left.v, "Div", right.v), right.p))
    IN  IF ~left.ok THEN left
        ELSE IF at(ts, left.p, "Slash")
        THEN k(parse_unary(ts, parser_advance(ts, left.p)))
        ELSE left

parse_multiplicative(ts, p) == parse_multiplicative_loop(ts, parse_unary(ts, p))

\* parse_additive: no '+', '-' or '.' among the tokens.
parse_additive(ts, p) == parse_multiplicative(ts, p)

\* The loop of parse_comparison: =~ and !~ want a Regex token next.
parse_comparison_loop(ts, left) ==
    LET regex == parser_current(ts, parser_advance(ts, left.p))
        k(right, op) ==
            IF ~right.ok THEN right
            ELSE parse_comparison_loop(ts, POk(BinOp(left.v, op, right.v), right.p))
    IN  IF ~left.ok THEN left
        ELSE IF at(ts, left.p, "Match") \/ at(ts, left.p, "NotMatch")
        THEN (IF regex.t # "Regex"
              THEN PErr(left.p, "Expected regex pattern after =~ or !~")
              ELSE parse_comparison_loop(
                       ts,
                       POk(IF at(ts, left.p, "Match") THEN Match(left.v, regex.pattern)
                           ELSE NotMatch(left.v, regex.pattern),
                           parser_advance(ts, parser_advance(ts, left.p)))))
        ELSE IF at(ts, left.p, "Eq")
        THEN k(parse_additive(ts, parser_advance(ts, left.p)), "Eq")
        ELSE IF at(ts, left.p, "Ne")
        THEN k(parse_additive(ts, parser_advance(ts, left.p)), "Ne")
        ELSE left

parse_comparison(ts, p) == parse_comparison_loop(ts, parse_additive(ts, p))

\* parse_and, parse_or, parse_ternary: none of their tokens is among ours.
parse_ternary(ts, p) == parse_comparison(ts, p)

parse_assignment(ts, p) ==
    LET k2(left, right, slash_equals) ==
            IF ~right.ok THEN right
            ELSE IF slash_equals THEN POk(OpAssign(left.v, "Div", right.v), right.p)
            ELSE POk(Assign(left.v, right.v), right.p)
        k1(left) ==
            IF ~left.ok THEN left
            ELSE IF at(ts, left.p, "Assign")
            THEN k2(left, parse_assignment(ts, parser_advance(ts, left.p)), FALSE)
            ELSE IF at(ts, left.p, "SlashEquals")
            THEN k2(left, parse_assignment(ts, parser_advance(ts, left.p)), TRUE)
            ELSE left
    IN  k1(parse_ternary(ts, p))

parse_expr(ts, p) == parse_assignment(ts, p)

\* parse_block
parse_block(ts, p) ==
    LET k(r) == IF r.ok THEN POk(Block(r.v), r.p) ELSE r
    IN  k(expect(ts, parse_stmt_list(ts, parser_advance(ts, p), <<>>), "RBrace"))

\* parse_statement: a block, or an expression and its semicolon.
parse_statement(ts, p) ==
    LET k(r) == IF r.ok THEN POk(ExprStmt(r.v), r.p) ELSE r
    IN  IF at(ts, p, "LBrace") THEN parse_block(ts, p)
        ELSE k(expect(ts, parse_expr(ts, p), "Semicolon"))

parse_stmt_list(ts, p, stmts) ==
    LET k(r) == IF r.ok THEN parse_stmt_list(ts, r.p, Append(stmts, r.v)) ELSE r
    IN  IF at(ts, p, "RBrace") \/ at(ts, p, "Eof") THEN POk(stmts, p)
        ELSE k(parse_statement(ts, p))

RECURSIVE parse_from(_, _, _)
\* Parser::parse: statements up to the Eof token.
parse_from(ts, p, statements) ==
    LET k(r) == IF r.ok THEN parse_from(ts, r.p, Append(statements, r.v)) ELSE r
    IN  IF at(ts, p, "Eof") THEN POk(statements, p)
        ELSE k(parse_statement(ts, p))

parse(ts) == parse_from(ts, 0, <<>>)

\* ------------------------------------------------------------------------
\* main.rs: source text to module, as a state machine
\* ------------------------------------------------------------------------
MaxPieces == 3

\* Pieces of source text: =~  !~  /  /h/h  /\//  =  1  ;  space  `  {  }
Pieces ==
    {<<chAssign, chTilde>>, <<chBang, chTilde>>, <<chSlash>>,
     <<chSlash, chH, chSlash, chH>>, <<chSlash, chBackslash, chSlash, chSlash>>,
     <<chAssign>>, <<ch1>>, <<chSemicolon>>, <<chSpace>>, <<chBacktick>>,
     <<chLBrace>>, <<chRBrace>>}

RECURSIVE Concat(_)
Concat(ss) == IF ss = <<>> THEN <<>> ELSE Head(ss) \o Concat(Tail(ss))

Sources == {Concat(ps) : ps \in UNION {[1..n -> Pieces] : n \in 0..MaxPieces}}

\* main: the source has been read, Lexer::new(&source).
InitFront ==
    /\ front \in {[stage |-> "lex", input |-> s, pos |-> 0, last_token |-> <<>>,
                   tokens |-> <<>>, err |-> ""] : s \in Sources}
    /\ program = <<>> /\ phase = "source" /\ comp = NewCompiler /\ stmt_i = 1
    /\ module = <<>> /\ run = 1 /\ first = <<>>
    /\ VmOff /\ NomOff

\* One turn of the loop of tokenize.
NextToken ==
    /\ front.stage = "lex"
    /\ front' = tokenize_step(front)
    /\ UNCHANGED <<compVars, vmVars, nom>>

\* Parser::new(tokens).parse(): the program goes to the compiler, or main
\* exits with the parse error.
Parse ==
    /\ front.stage = "parse"
    /\ LET k(r) ==
               IF r.ok
               THEN /\ front' = [front EXCEPT !.stage = "parsed"]
                    /\ program' = r.v /\ phase' = "pass1"
               ELSE /\ front' = [front EXCEPT !.stage = "failed", !.err = r.err]
                    /\ UNCHANGED <<program, phase>>
       IN  k(parse(front.tokens))
    /\ UNCHANGED <<comp, stmt_i, module, run, first>>
    /\ UNCHANGED <<vmVars, nom>>

NextFront ==
    \/ NextToken
    \/ Parse
    \/ Pass1
    \/ CompileTop
    \/ EmitHalt
    \/ PatchForwardRefs
    \/ CopySubs

SpecFront == InitFront /\ [][NextFront]_vars

\* ------------------------------------------------------------------------
\* Properties of the lexer and the parser
\* ------------------------------------------------------------------------
\* The index (from 0) of the first character at or after p that is not a
\* space, Len(s) when there is none.
NextVisible(s, p) ==
    IF \E q \in p..Len(s) - 1 : s[q + 1] # chSpace
    THEN CHOOSE q \in p..Len(s) - 1 :
             s[q + 1] # chSpace /\ \A r \in p..q - 1 : s[r + 1] = chSpace
    ELSE Len(s)

\* The character at index j is a '/' that an odd run of backslashes does not
\* escape; the run is counted back to index lo.
Unescaped(s, lo, j) ==
    /\ s[j + 1] = chSlash
    /\ \E b \in lo..j :
          /\ \A r \in b..j - 1 : s[r + 1] = chBackslash
          /\ b = lo \/ s[b] # chBackslash
          /\ (j - b) % 2 = 0

\* The end of the run of letters that starts at index j.
FlagsEnd(s, j) ==
    CHOOSE e \in j..Len(s) :
        /\ \A r \in j..e - 1 : is_alphabetic(s[r + 1])
        /\ e = Len(s) \/ ~is_alphabetic(s[e + 1])

\* The token and the position a regex literal at index q leaves, when its
\* closing '/' is at index j.
RegexAt(s, q, j, tok, p) ==
    /\ tok = TokRegex(SubSeq(s, q + 2, j), SubSeq(s, j + 2, FlagsEnd(s, j + 1)))
    /\ p = FlagsEnd(s, j + 1)

\* What C16 says of the token tok and the position p that the lexer, with
\* last token `last`, produces at the '/' at index q of s.
SlashClassified(s, q, last, tok, p) ==
    IF last \in {<<Tok("Match")>>, <<Tok("NotMatch")>>}
    THEN /\ tok.t = "Regex"
         /\ \A j \in q + 1..Len(s) - 1 :
               (Unescaped(s, q + 1, j) /\ \A i \in q + 1..j - 1 : ~Unescaped(s, q + 1, i))
                   => RegexAt(s, q, j, tok, p)
    ELSE IF q + 1 < Len(s) /\ s[q + 2] = chAssign
    THEN tok = Tok("SlashEquals") /\ p = q + 2
    ELSE tok = Tok("Slash") /\ p = q + 1

\* A step of tokenize that reads its token at a '/'.
LexAtSlash ==
    /\ front.stage = "lex" /\ front'.tokens # front.tokens
    /\ NextVisible(front.input, front.pos) < Len(front.input)
    /\ front.input[NextVisible(front.input, front.pos) + 1] = chSlash

\* C16: the lexer classifies '/' by the token it emitted last: after =~ or
\* !~ it reads a regex literal, the pattern up to the next unescaped '/',
\* then the letters after it as flags; after any other token, a regex
\* literal included, and at the start of the input, it reads '/' as Slash
\* or '/=' as SlashEquals.
C16_SlashByLastToken ==
    [][LexAtSlash =>
           SlashClassified(front.input, NextVisible(front.input, front.pos),
                           front.last_token, front'.last_token[1], front'.pos)]_vars

\* =~/h/h/ has been read as Match, the regex h with flag h, and a division.
C16_Witness ==
    /\ front.input = <<chAssign, chTilde, chSlash, chH, chSlash, chH, chSlash>>
    /\ front.tokens = <<Tok("Match"), TokRegex(<<chH>>, <<chH>>), Tok("Slash"), Tok("Eof")>>

\* The source has a character that no arm of the lexer names.
HasUnknown(s) == \E i \in 1..Len(s) : s[i] = chBacktick

\* C17: a source with a character the lexer does not recognise is never
\* compiled to a module.
C17_UnknownCharNeverCompiles ==
    HasUnknown(front.input) => (phase # "done" /\ module = <<>>)

\* What does hold: at the unknown character the lexer emits Eof, consumes
\* the character, and tokenize stops there.
C17_UnknownCharEndsTokens ==
    [][(/\ front.stage = "lex"
        /\ NextVisible(front.input, front.pos) < Len(front.input)
        /\ front.input[NextVisible(front.input, front.pos) + 1] = chBacktick)
       => (/\ front'.tokens = Append(front.tokens, Tok("Eof"))
           /\ front'.pos = NextVisible(front.input, front.pos) + 1
           /\ front'.stage = "parse")]_vars

\* ------------------------------------------------------------------------
\* C21: instruction widths
\* ------------------------------------------------------------------------
\* get_opcodes: the offset at which `while pc < module.code.len()` leaves.
RECURSIVE walk_end(_, _)
walk_end(code, pc) ==
    IF pc >= Len(code) THEN pc ELSE walk_end(code, pc + size(code[pc + 1]))

\* C21: the walk from offset 0 that advances by size(op) visits exactly the
\* offsets at which the compiler pushed an opcode byte, and leaves at
\* len(code); this holds for the code of the returned module and for the code
\* emitted so far at every step of compile.
C21_WalkBySize ==
    /\ disassemble(comp.code) = comp.starts
    /\ walk_end(comp.code, 0) = Len(comp.code)

\* A returned module whose code holds instructions of all three widths,
\* EnterFrame and patched jumps among them.
C21_Witness ==
    /\ phase = "done"
    /\ \A op \in {OpEnterFrame, OpStoreLocal, OpJumpIfNot, OpCall, OpPushStr, OpInc, OpHalt} :
          instrs(comp.code, op) # {}

\* ------------------------------------------------------------------------
\* bytecode.rs, enum Op: the semantics the comments of the opcodes document,
\* as a machine over the code of a module.  Values are 16 bits wide; arrays
\* are heap-allocated and a value may be a pointer to one.  The top of the
\* stack is the last element of `stack`.
\* ------------------------------------------------------------------------
IntV(n) == [k |-> "int", v |-> n % U16]
ArrV(i) == [k |-> "arr", v |-> i]
StrV(i) == [k |-> "str", v |-> i]

\* A 16-bit value read as a signed integer.
Signed(v) == IF v >= U16 \div 2 THEN v - U16 ELSE v

Truth(b) == IntV(IF b THEN 1 ELSE 0)

\* The i-th value from the top of the stack, 1 for the top.
Top(st, i) == st[Len(st) + 1 - i]

Drop(st, n) == SubSeq(st, 1, Len(st) - n)

\* The number of values an opcode takes from the stack.
nominal_pops(op) ==
    IF op \in {OpArrSet, OpHashSet} THEN 3
    ELSE IF op \in {OpOver, OpStrCat, OpStrCmp, OpArrGet, OpHashGet, OpAdd, OpSub, OpMul,
                    OpDiv, OpMod, OpBitAnd, OpBitOr, OpBitXor, OpShl, OpShr, OpCmpEq,
                    OpCmpNe, OpCmpLt, OpCmpGt, OpCmpLe, OpCmpGe, OpCmp, OpStrEq, OpStrNe,
                    OpStrLt, OpStrGt, OpStrLe, OpStrGe, OpAnd, OpOr, OpMatch} THEN 2
    ELSE IF op \in {OpPop, OpDup, OpStoreLocal, OpStoreGlobal, OpArrLen, OpNeg, OpInc,
                    OpDec, OpBitNot, OpNot, OpJumpIf, OpJumpIfNot, OpPrint} THEN 1
    ELSE 0

\* The number of values an opcode leaves on the stack in their place.
nominal_pushes(op) ==
    IF op = OpOver THEN 3
    ELSE IF op = OpDup THEN 2
    ELSE IF op \in {OpPop, OpStoreLocal, OpStoreGlobal, OpArrSet, OpHashSet, OpJump,
                    OpJumpIf, OpJumpIfNot, OpPrint, OpPrintLn, OpHalt} THEN 0
    ELSE 1

\* a op b for the arithmetic and comparison opcodes, a and b 16-bit values.
binary_value(op, a, b) ==
    CASE op = OpAdd -> IntV(a + b)
      [] op = OpSub -> IntV(a - b + U16)
      [] op = OpMul -> IntV(a * b)
      [] op = OpCmpEq -> Truth(a = b)
      [] op = OpCmpNe -> Truth(a # b)
      [] op = OpCmpLt -> Truth(Signed(a) < Signed(b))
      [] op = OpCmpGt -> Truth(Signed(a) > Signed(b))
      [] op = OpCmpLe -> Truth(Signed(a) <= Signed(b))
      [] op = OpCmpGe -> Truth(Signed(a) >= Signed(b))
      [] op = OpAnd -> Truth(a # 0 /\ b # 0)
      [] op = OpOr -> Truth(a # 0 \/ b # 0)

unary_value(op, a) ==
    CASE op = OpNeg -> IntV(U16 - a)
      [] op = OpInc -> IntV(a + 1)
      [] op = OpDec -> IntV(a - 1 + U16)
      [] op = OpNot -> Truth(a = 0)

BinaryOps == {OpAdd, OpSub, OpMul, OpCmpEq, OpCmpNe, OpCmpLt, OpCmpGt, OpCmpLe, OpCmpGe,
              OpAnd, OpOr}
UnaryOps == {OpNeg, OpInc, OpDec, OpNot}

IsInt(x) == x.k = "int"

\* The machine after the instruction at m.pc; "stuck" where the documented
\* semantics says nothing about the operands found.
nom_step(code, m) ==
    LET op == code[m.pc + 1]
        st == m.stack
        stuck == [m EXCEPT !.stage = "stuck"]
        go(st2) == [m EXCEPT !.stack = st2, !.pc = m.pc + size(op),
                             !.trace = Append(@, m.pc)]
        jump(st2, target) == [m EXCEPT !.stack = st2, !.pc = target,
                                       !.trace = Append(@, m.pc)]
    IN  IF Len(st) < nominal_pops(op) THEN stuck
        ELSE CASE op = OpPush -> go(Append(st, IntV(operand16(code, m.pc))))
               [] op = OpPushStr -> go(Append(st, StrV(operand16(code, m.pc))))
               [] op = OpPop -> go(Drop(st, 1))
               [] op = OpDup -> go(Append(st, Top(st, 1)))
               [] op = OpOver -> go(Append(st, Top(st, 2)))
               [] op = OpLoadLocal ->
                    IF code[m.pc + 2] \in DOMAIN m.locals
                    THEN go(Append(st, m.locals[code[m.pc + 2]]))
                    ELSE stuck
               [] op = OpStoreLocal ->
                    [go(Drop(st, 1)) EXCEPT !.locals = Insert(@, code[m.pc + 2], Top(st, 1))]
               [] op = OpLoadGlobal ->
                    IF operand16(code, m.pc) \in DOMAIN m.globals
                    THEN go(Append(st, m.globals[operand16(code, m.pc)]))
                    ELSE stuck
               [] op = OpStoreGlobal ->
                    [go(Drop(st, 1)) EXCEPT
                        !.globals = Insert(@, operand16(code, m.pc), Top(st, 1))]
               [] op = OpNewArray ->
                    [go(Append(st, ArrV(Len(m.heap) + 1))) EXCEPT
                        !.heap = Append(@, [i \in 1..code[m.pc + 2] |-> IntV(0)])]
               [] op = OpArrLen ->
                    IF Top(st, 1).k = "arr"
                    THEN go(Append(Drop(st, 1), IntV(Len(m.heap[Top(st, 1).v]))))
                    ELSE stuck
               [] op = OpArrGet ->
                    IF /\ Top(st, 2).k = "arr" /\ IsInt(Top(st, 1))
                       /\ Top(st, 1).v < Len(m.heap[Top(st, 2).v])
                    THEN go(Append(Drop(st, 2), m.heap[Top(st, 2).v][Top(st, 1).v + 1]))
                    ELSE stuck
               [] op = OpArrSet ->
                    IF /\ Top(st, 3).k = "arr" /\ IsInt(Top(st, 2))
                       /\ Top(st, 2).v < Len(m.heap[Top(st, 3).v])
                    THEN [go(Drop(st, 3)) EXCEPT
                             !.heap[Top(st, 3).v][Top(st, 2).v + 1] = Top(st, 1)]
                    ELSE stuck
               [] op \in BinaryOps ->
                    IF IsInt(Top(st, 2)) /\ IsInt(Top(st, 1))
                    THEN go(Append(Drop(st, 2), binary_value(op, Top(st, 2).v, Top(st, 1).v)))
                    ELSE stuck
               [] op \in UnaryOps ->
                    IF IsInt(Top(st, 1))
                    THEN go(Append(Drop(st, 1), unary_value(op, Top(st, 1).v)))
                    ELSE stuck
               [] op = OpJump -> jump(st, operand16(code, m.pc))
               [] op = OpJumpIfNot ->
                    IF ~IsInt(Top(st, 1)) THEN stuck
                    ELSE IF Top(st, 1).v = 0 THEN jump(Drop(st, 1), operand16(code, m.pc))
                    ELSE go(Drop(st, 1))
               [] op = OpJumpIf ->
                    IF ~IsInt(Top(st, 1)) THEN stuck
                    ELSE IF Top(st, 1).v # 0 THEN jump(Drop(st, 1), operand16(code, m.pc))
                    ELSE go(Drop(st, 1))
               [] op = OpPrint -> [go(Drop(st, 1)) EXCEPT !.out = Append(@, Top(st, 1))]
               [] op = OpHalt -> [m EXCEPT !.stage = "halted", !.trace = Append(@, m.pc)]
               [] OTHER -> stuck

\* The longest run of the machine that is followed.
MaxNomSteps == 60

\* The elements of the arrays that are iterated.
MaxArrLen == 3

\* The i-th element of an iterated list.
Element(i) == 6 + i

PrintX == PrintStmt(<<ScalarVar("x")>>)
PrintI == PrintStmt(<<ScalarVar("i")>>)

\* foreach $x (7, 8, ...) { body }  over n elements, then print 5;
ForeachProg(n, body) ==
    <<Foreach("x", List([i \in 1..n |-> Integer(Element(i))]), body),
      PrintStmt(<<Integer(5)>>)>>

\* for (my $i = 0; $i < n; $i++) { body }  then print 5;
ForProg(n, body) ==
    <<For(<<My(<<"i">>, <<Integer(0)>>)>>, <<BinOp(ScalarVar("i"), "Lt", Integer(n))>>,
          <<PostIncrement(ScalarVar("i"))>>, body),
      PrintStmt(<<Integer(5)>>)>>

LoopBodies == {<<PrintX>>, <<PrintX, Next_>>, <<PrintX, Last>>}
ForBodies == {<<PrintI>>, <<PrintI, Next_>>, <<PrintI, Last>>}

NomPrograms ==
    {ForeachProg(n, body) : n \in 0..MaxArrLen, body \in LoopBodies}
        \cup {ForProg(n, body) : n \in 0..MaxArrLen, body \in ForBodies}

\* The machine at the entry of the code of a module that compile returned.
InitNom ==
    /\ program \in NomPrograms
    /\ comp \in Compiled(program)
    /\ phase = "done" /\ stmt_i = Len(program) + 1
    /\ module = <<ModuleOf(comp)>> /\ run = 1 /\ first = <<>>
    /\ VmOff /\ FrontOff
    /\ nom = [stage |-> "run", pc |-> module[1].entry, stack |-> <<>>, locals |-> <<>>,
              globals |-> <<>>, heap |-> <<>>, out |-> <<>>, trace |-> <<>>]

\* One instruction of the code.
NomStep ==
    /\ nom.stage = "run" /\ Len(nom.trace) < MaxNomSteps
    /\ nom' = nom_step(module[1].code, nom)
    /\ UNCHANGED <<compVars, vmVars, front>>

NextNom == NomStep

SpecNom == InitNom /\ [][NextNom]_vars

\* ------------------------------------------------------------------------
\* C22: foreach under the documented semantics
\* ------------------------------------------------------------------------
ForeachPrints(n) == program = ForeachProg(n, <<PrintX>>)

C22_ForeachBodyNeverRuns ==
    \A n \in 0..MaxArrLen :
        ForeachPrints(n) =>
            /\ nom.stage # "stuck"
            /\ nom.stage = "halted" => nom.out = <<IntV(5)>> /\ nom.stack = <<>>

\* ------------------------------------------------------------------------
\* C23: if / elsif / else on the interpreter
\* ------------------------------------------------------------------------
\* The largest number of elsif branches.
MaxElsifs == 2

\* The value that stands for condition i in the code: its first Push.
CondId(i) == 10 + i

\* Condition i as an expression: false (id == 0), true with a value below
\* 256, true with a value whose low byte is zero.
CondExpr(i, kind) ==
    CASE kind = "false" -> BinOp(Integer(CondId(i)), "Eq", Integer(0))
      [] kind = "true" -> Integer(CondId(i))
      [] kind = "high" -> BinOp(Integer(CondId(i)), "Add", Integer(U8 - CondId(i)))

CondKinds == {"false", "true", "high"}

PrintDigit(d) == PrintStmt(<<Integer(d)>>)

\* if (c1) { print 1; } elsif (c2) { print 2; } ... [else { print 8; }] print 9;
IfProg(kinds, with_else) ==
    <<If(CondExpr(1, kinds[1]), <<PrintDigit(1)>>,
         [i \in 1..Len(kinds) - 1 |-> <<CondExpr(i + 1, kinds[i + 1]), <<PrintDigit(i + 1)>>>>],
         IF with_else THEN << <<PrintDigit(8)>> >> ELSE <<>>),
      PrintDigit(9)>>

IfKinds == UNION {[1..n -> CondKinds] : n \in 1..MaxElsifs + 1}

IfProgs == {IfProg(kinds, e) : kinds \in IfKinds, e \in BOOLEAN}

InitIf == InitRom(IfProgs)

\* The handlers a program of IfProgs reaches.
NextIf ==
    \/ Boot
    \/ HandlePush
    \/ HandleCmpEq
    \/ HandleAdd
    \/ HandleJumpIfNot
    \/ HandleJump
    \/ HandlePrint
    \/ HandleHalt

SpecIf == InitIf /\ [][NextIf]_vars

\* The conditions of an if statement in source order.
Conds(s) == <<s.cond>> \o [i \in 1..Len(s.elsif_blocks) |-> s.elsif_blocks[i][1]]

IsTrue(e) == e.t = "Integer" \/ e.op = "Add"

\* The interpreter is about to execute the first instruction of condition j.
EvaluatesCond(j) ==
    /\ status = "running" /\ Opcode = OpPush /\ Operand16 = CondId(j)

\* The index of the first condition that is non-zero, 0 if there is none.
FirstTrue(conds) ==
    IF \E j \in DOMAIN conds : IsTrue(conds[j])
    THEN CHOOSE j \in DOMAIN conds :
             IsTrue(conds[j]) /\ \A i \in 1..j - 1 : ~IsTrue(conds[i])
    ELSE 0

\* What the statement prints: the block of the first non-zero condition,
\* else the else block, else nothing.
Selected(s) ==
    IF FirstTrue(Conds(s)) # 0 THEN <<48 + FirstTrue(Conds(s))>>
    ELSE IF s.else_block # <<>> THEN <<48 + 8>>
    ELSE <<>>

IfHolds(s) ==
    /\ status # "stray"
    /\ \A j \in DOMAIN Conds(s) :
          EvaluatesCond(j) =>
              /\ out = <<>>
              /\ \A i \in 1..j - 1 : ~IsTrue(Conds(s)[i])
    /\ out # <<>> => SubSeq(out, 1, Len(Selected(s))) = Selected(s)
    /\ status = "halted" => out = Selected(s) \o <<48 + 9>>

\* C23: a condition is evaluated only while every condition before it was
\* zero and no block has run; the one block that runs is that of the first
\* non-zero condition (the else block if there is none, nothing without an
\* else), and execution goes on with the statement after the if.
C23_IfSelectsFirstTrue == IfHolds(program[1])

\* if (0) {..} elsif (a value with low byte 0) { print 2; } elsif (..) {..}
\* else {..} has printed 2 and 9 and stopped.
C23_Witness ==
    /\ program = IfProg(<<"false", "high", "true">>, TRUE)
    /\ status = "halted" /\ out = <<50, 57>>

\* ------------------------------------------------------------------------
\* C24: `last` in nested loops.  Every loop of a program carries a label k;
\* the statement after the loop prints EndMark(k), and every `last` whose
\* innermost enclosing loop is k follows a statement that prints LastMark(k).
\* ------------------------------------------------------------------------
MaxLoopDepth == 3

EndMark(k) == 1000 + k
EndMarkForeach(k) == 3000 + k
LastMark(k) == 2000 + k

LoopKinds == {"while", "until", "for", "foreach"}

LoopOf(kind, body) ==
    CASE kind = "while" -> While(Integer(1), body)
      [] kind = "until" -> Until(Integer(0), body)
      [] kind = "for" -> For(<<>>, <<Integer(1)>>, <<>>, body)
      [] kind = "foreach" -> Foreach("x", List(<<>>), body)

\* Loop k and the statement that follows it.
Marked(kind, k, body) ==
    <<LoopOf(kind, body),
      PrintStmt(<<Integer(IF kind = "foreach" THEN EndMarkForeach(k) ELSE EndMark(k))>>)>>

\* A `last` of loop k, bare or as the then-block of an if.
LastOf(k) == <<PrintStmt(<<Integer(LastMark(k))>>), Last>>
LastInIf(k) == <<If(Integer(1), LastOf(k), <<>>, <<>>)>>

RECURSIVE LoopTrees(_, _)
\* The loops labelled k that nest at most d deep: the body holds a loop
\* nested one level less, or two sibling loops, and `last`s of loop k itself
\* before (inside an if) and after them.
LoopTrees(d, k) ==
    LET leaves == {LastOf(k)}
        nested == IF d = 1 THEN {}
                  ELSE {a \o inner \o LastOf(k) :
                            a \in {<<>>, LastInIf(k)}, inner \in LoopTrees(d - 1, 3 * k + 1)}
                       \cup {i1 \o i2 \o LastOf(k) :
                                i1 \in LoopTrees(1, 3 * k + 1), i2 \in LoopTrees(1, 3 * k + 2)}
    IN  {Marked(kind, k, body) : kind \in LoopKinds, body \in leaves \cup nested}

LoopPrograms == LoopTrees(MaxLoopDepth, 1)

InitLoops ==
    /\ program \in LoopPrograms
    /\ phase = "pass1" /\ comp = NewCompiler /\ stmt_i = 1
    /\ module = <<>> /\ run = 1 /\ first = <<>>
    /\ VmOff /\ FrontOff /\ NomOff

NextLoops ==
    \/ Pass1
    \/ CompileTop
    \/ EmitHalt
    \/ PatchForwardRefs
    \/ CopySubs

SpecLoops == InitLoops /\ [][NextLoops]_vars

\* The labels that can occur at depth MaxLoopDepth.
RECURSIVE LabelsTo(_, _)
LabelsTo(d, k) ==
    IF d = 0 THEN {} ELSE {k} \cup LabelsTo(d - 1, 3 * k + 1) \cup LabelsTo(d - 1, 3 * k + 2)

\* The offsets of the Push instructions with operand w.
PushesOf(code, w) == {pc \in instrs(code, OpPush) : operand16(code, pc) = w}

\* The end address of loop k: the offset just after its back-jump.  For
\* while, until and for that is where the next statement starts; after a
\* foreach the two Pops of the index and the array come first.
LoopEnds(code, k) ==
    PushesOf(code, EndMark(k)) \cup {pc - 2 : pc \in PushesOf(code, EndMarkForeach(k))}

\* The Jumps emitted for the `last`s of loop k: each follows the Push and
\* the Print of the statement before it.
LastJumps(code, k) == {pc + size(OpPush) + size(OpPrint) : pc \in PushesOf(code, LastMark(k))}

LastsPatched(code, labels) ==
    \A k \in labels : \A pc \in LastJumps(code, k) :
        /\ code[pc + 1] = OpJump
        /\ LoopEnds(code, k) = {operand16(code, pc)}

\* C24: in the returned module the operand of the Jump of every `last` is the
\* end address of its innermost enclosing loop, and between the top-level
\* statements the loop stack is empty.
C24_LastTargetsInnermostLoop ==
    /\ comp.loop_stack = <<>>
    /\ phase # "failed"
    /\ phase = "done" => LastsPatched(comp.code, LabelsTo(MaxLoopDepth, 1))

\* A returned module of three nested loops, one `last` for each of them, the
\* innermost a foreach.
C24_Witness ==
    /\ phase = "done"
    /\ program = Marked("while", 1,
                        Marked("for", 4, Marked("foreach", 13, LastOf(13)) \o LastOf(4))
                            \o LastOf(1))
    /\ \A k \in {1, 4, 13} : LastJumps(comp.code, k) # {}

\* ------------------------------------------------------------------------
\* C25: slots of the names in scope
\* ------------------------------------------------------------------------
\* C25: at no point of the compilation of a program without subroutines do
\* two distinct names that resolve through the local scope stack have the
\* same slot.
C25_DistinctNamesDistinctSlots ==
    (\A i \in DOMAIN program : program[i] \notin {SubXY, SubNext, WhileSubNext})
        => comp.clashes = {}

\* ------------------------------------------------------------------------
\* C26: the Z80 stack at the top of the dispatch loop
\* ------------------------------------------------------------------------
\* C26: whenever control is at the top of the interpreter's dispatch loop the
\* Z80 stack pointer has the value the entry code gave it.
C26_Z80StackBalanced == status = "running" => z80_sp = STACK_TOP

\* What the handlers do: the dispatcher's PUSH HL is popped only by a taken
\* JUMPIFNOT and by the default case, so a step of any other handler leaves
\* the stack pointer two bytes lower; HALT, tested before the PUSH HL, pops
\* two bytes all the same.
C26_StackDriftPerStep ==
    [][/\ (status = "running" /\ status' = "running") =>
              z80_sp' = IF Opcode = OpJumpIfNot /\ vm_top(VmStack) = 0
                        THEN z80_sp ELSE (z80_sp - 2) % U16
       /\ (status = "running" /\ status' = "halted") => z80_sp' = (z80_sp + 2) % U16]_vars

\* ------------------------------------------------------------------------
\* C27: `next`
\* ------------------------------------------------------------------------
\* The Jumps of a code that do not go forward.
BackwardJumps(code) == {pc \in instrs(code, OpJump) : operand16(code, pc) <= pc}

\* In the code of one loop the last of them is the loop's own back-jump to
\* loop_start; the others are the Jumps of `next`.
BackJump(code) == MaxOf(BackwardJumps(code))
NextJumps(code) == BackwardJumps(code) \ {BackJump(code)}

\* Every `next` jumps where the back-jump goes, the check is what stands
\* there, and the Inc of the step (for) or of the index (foreach) lies behind
\* every `next`, before the back-jump.
NextTargetsCheck(code, check) ==
    LET loop_start == operand16(code, BackJump(code))
    IN  /\ \A pc \in NextJumps(code) : operand16(code, pc) = loop_start
        /\ \A k \in DOMAIN check : code[loop_start + k] = check[k]
        /\ \A inc \in instrs(code, OpInc) :
              /\ inc < BackJump(code)
              /\ \A pc \in NextJumps(code) : pc < inc

ForWithNext(n) == program = ForProg(n, <<PrintI, Next_>>)
ForeachWithNext(n) == program = ForeachProg(n, <<PrintX, Next_>>)

\* C27: the Jump of `next` goes to loop_start, the condition of a for and the
\* length check of a foreach, and the step or the increment of the index is
\* not on its way: running `for (my $i = 0; $i < n; $i++) { print $i; next; }`
\* never executes the Inc of $i++, so $i stays 0, every print writes 0 and,
\* for n >= 1, the loop is never left.
C27_NextSkipsStep ==
    \A n \in 0..MaxArrLen :
        /\ ForWithNext(n) =>
              /\ NextTargetsCheck(module[1].code, <<OpLoadLocal, 0, OpPush, n, 0, OpCmpLt>>)
              /\ \A i \in DOMAIN nom.trace : module[1].code[nom.trace[i] + 1] # OpInc
              /\ nom.stage # "stuck"
              /\ n >= 1 => /\ \A i \in DOMAIN nom.out : nom.out[i] = IntV(0)
                           /\ nom.stage # "halted"
        /\ ForeachWithNext(n) =>
              NextTargetsCheck(module[1].code, <<OpOver, OpArrLen, OpOver, OpCmpLt>>)

\* for (my $i = 0; $i < 2; $i++) { print $i; next; } has printed 0 three times.
C27_Witness ==
    /\ ForWithNext(2)
    /\ NextJumps(module[1].code) # {}
    /\ nom.out = <<IntV(0), IntV(0), IntV(0)>>

\* Without `next` the step runs: the same loop prints 0 .. n-1 and is left.
C27_ForWithoutNext ==
    \A n \in 0..MaxArrLen :
        (program = ForProg(n, <<PrintI>>) /\ nom.stage = "halted") =>
            nom.out = [i \in 1..n |-> IntV(i - 1)] \o <<IntV(5)>>

\* ------------------------------------------------------------------------
\* C28: CmpLt and CmpLe on the interpreter
\* ------------------------------------------------------------------------
\* Operands at the ends of the signed 16-bit range and around zero.
CmpValues == {0, 1, U16 \div 2 - 1, U16 \div 2, U16 - 1}

\* print a < b;  and  print a <= b;
CmpProg(a, op, b) == <<PrintStmt(<<BinOp(Integer(a), op, Integer(b))>>)>>

CmpProgs == {CmpProg(a, op, b) : a \in CmpValues, b \in CmpValues, op \in {"Lt", "Le"}}

InitCmp == InitRom(CmpProgs)

\* The handlers a program of CmpProgs reaches.
NextCmp ==
    \/ Boot
    \/ HandlePush
    \/ HandleCmpLt
    \/ HandleCmpLe
    \/ HandlePrint
    \/ HandleHalt

SpecCmp == InitCmp /\ [][NextCmp]_vars

\* What signed 16-bit comparison gives for the program's operands.
SignedCompare(e) ==
    IF e.op = "Lt" THEN Signed(e.left.n) < Signed(e.right.n)
    ELSE Signed(e.left.n) <= Signed(e.right.n)

\* C28: `print a < b` writes 1 exactly when a < b as signed 16-bit integers,
\* and `print a <= b` writes 1 exactly when a <= b, else 0.
C28_SignedCompare ==
    status = "halted" =>
        out = <<IF SignedCompare(program[1].exprs[1]) THEN ch1 ELSE ch0>>

\* Where the difference the handler forms, a - b for CmpLt and b - a for
\* CmpLe, stays within the signed 16-bit range, the handlers agree with the
\* signed comparison.
C28_CompareWithoutOverflow ==
    LET e == program[1].exprs[1]
        d == IF e.op = "Lt" THEN Signed(e.left.n) - Signed(e.right.n)
             ELSE Signed(e.right.n) - Signed(e.left.n)
    IN  (status = "halted" /\ d >= -(U16 \div 2) /\ d < U16 \div 2) =>
            out = <<IF SignedCompare(e) THEN ch1 ELSE ch0>>

\* ------------------------------------------------------------------------
\* C29: Mod
\* ------------------------------------------------------------------------
\* C29, termination: the Mod handler always gets back to the dispatch loop;
\* the interpreter is never left inside the handler's subtraction loop.
C29_ModReturnsToDispatch == status # "hung"

\* C29, value: with a divisor other than zero one step of the handler ends
\* at the dispatch loop with vm_pc advanced by 1 and a mod b, computed on the
\* unsigned values, in place of the operands.
C29_ModValue ==
    [][(Fetch(OpMod) /\ OperandB # 0) =>
           /\ status' = "running"
           /\ vm_pc' = (vm_pc + 1) % U16
           /\ vm_sp' = (vm_sp + 2) % U16
           /\ Mem16(ram', vm_sp') = OperandA % OperandB]_vars

\* ------------------------------------------------------------------------
\* C30: the stack effect of expressions
\* ------------------------------------------------------------------------
\* The nesting depth of the expressions that are compiled.
MaxExprDepth == 2

VarX == ScalarVar("x")

ExprLeaves == {Integer(1), VarX, String(<<chH>>)}

\* Every form compile_expr accepts (calls apart), over operands from S.
Forms(S) ==
    {BinOp(l, "Add", r) : l \in S, r \in S}
        \cup {UnaryOp("Neg", e) : e \in S}
        \cup {PostIncrement(VarX), PostDecrement(VarX)}
        \cup {PostIncrement(ArrayIndex(VarX, e)) : e \in S}
        \cup {Assign(VarX, e) : e \in S}
        \cup {Assign(ArrayIndex(VarX, i), e) : i \in S, e \in S}
        \cup {Assign(HashIndex(VarX, i), e) : i \in S, e \in S}
        \cup {OpAssign(VarX, "Add", e) : e \in S}
        \cup {OpAssign(ArrayIndex(VarX, Integer(1)), "Concat", e) : e \in S}
        \cup {Ternary(c, a, b) : c \in S, a \in S, b \in S}
        \cup {List(items) : items \in {<<>>} \cup {<<a>> : a \in S} \cup {<<a, b>> : a \in S, b \in S}}
        \cup {Hash(pairs) : pairs \in {<<>>} \cup {<< <<k, v>> >> : k \in S, v \in S}}
        \cup {ArrayIndex(VarX, e) : e \in S}
        \cup {HashIndex(VarX, e) : e \in S}
        \cup {Match(e, <<chH>>) : e \in S}
        \cup {NotMatch(e, <<chH>>) : e \in S}

\* The forms with one operand place, applied to the expressions of S.
Wraps(S) ==
    {UnaryOp("Not", e) : e \in S}
        \cup {BinOp(Integer(1), "Mul", e) : e \in S}
        \cup {Assign(VarX, e) : e \in S}
        \cup {Ternary(e, e, Integer(1)) : e \in S}
        \cup {List(<<e>>) : e \in S}

RECURSIVE PlainExprs(_)
\* Expressions without pre-increment or pre-decrement, nested at most d deep.
PlainExprs(d) ==
    IF d = 0 THEN ExprLeaves
    ELSE IF d = 1 THEN ExprLeaves \cup Forms(ExprLeaves)
    ELSE PlainExprs(d - 1) \cup Wraps(PlainExprs(d - 1))

\* Pre-increment and pre-decrement, alone and inside another expression.
PreExprs(d) ==
    LET pre == {PreIncrement(VarX), PreDecrement(VarX), PreIncrement(ArrayIndex(VarX, Integer(1)))}
    IN  IF d <= 1 THEN pre ELSE pre \cup Wraps(pre)

\* my $x; e;
ExprProg(e) == <<My(<<"x">>, <<>>), ExprStmt(e)>>

ExprPrograms == {ExprProg(e) : e \in PlainExprs(MaxExprDepth) \cup PreExprs(MaxExprDepth)}

InitExpr ==
    /\ program \in ExprPrograms
    /\ phase = "pass1" /\ comp = NewCompiler /\ stmt_i = 1
    /\ module = <<>> /\ run = 1 /\ first = <<>>
    /\ VmOff /\ FrontOff /\ NomOff

NextExpr ==
    \/ Pass1
    \/ CompileTop
    \/ EmitHalt
    \/ PatchForwardRefs
    \/ CopySubs

SpecExpr == InitExpr /\ [][NextExpr]_vars

MinOf(a, b) == IF a < b THEN a ELSE b

\* The offsets control can go to after the instruction at pc.
successors(code, pc) ==
    LET op == code[pc + 1]
    IN  IF op = OpJump THEN {operand16(code, pc)}
        ELSE IF op \in {OpJumpIf, OpJumpIfNot} THEN {operand16(code, pc), pc + size(op)}
        ELSE {pc + size(op)}

RECURSIVE depth_walk(_, _, _, _)
\* For every path of the code from pc to end that starts with d values on
\* the stack: the depth it arrives with (fin) and the lowest depth an
\* instruction on it reached into (low), under the nominal stack effects.
depth_walk(code, pc, end, d) ==
    IF pc = end THEN {[low |-> d, fin |-> d]}
    ELSE LET op == code[pc + 1]
             after == d - nominal_pops(op) + nominal_pushes(op)
         IN  {[low |-> MinOf(d - nominal_pops(op), r.low), fin |-> r.fin] :
                 r \in UNION {depth_walk(code, next, end, after) :
                                 next \in successors(code, pc)}}

\* The code of the statement `e;` of a returned module: the code of e from
\* offset 0 to the Pop that precedes Halt.
OneValue(code) ==
    /\ code[Len(code) - 1] = OpPop
    /\ \A r \in depth_walk(code, 0, Len(code) - 2, 0) : r.fin = 1 /\ r.low >= 0

\* C30: the code of every expression that compiles leaves one value more
\* than it found on every path through it and reaches into no slot below
\* its starting depth.
C30_ExprLeavesOneValue == phase = "done" => OneValue(comp.code)

\* Every form other than pre-increment and pre-decrement does so.
C30_PlainExprLeavesOneValue ==
    (phase = "done" /\ program[2].e \in PlainExprs(MaxExprDepth)) => OneValue(comp.code)

\* All programs compile.
C30_AllCompile == phase # "failed"

====
